---- MODULE Spec2Model ----
(***************************************************************************)
(* A model of magector's vector store (rust-core/src/vectordb.rs), of its  *)
(* on-disk format, and of the two threads that share the index in serve    *)
(* mode (rust-core/src/watcher.rs, rust-core/src/main.rs).                  *)
(*                                                                         *)
(* Abstractions.  An IndexMetadata record is modelled by its `path` field, *)
(* a path by the bytes of its string.  A Vec<f32> is modelled by its       *)
(* length and one byte standing for its payload.  The HNSW graph is        *)
(* modelled by the set of point ids it holds; a nearest-neighbour search   *)
(* returns the first `knbn` points of a distance ranking of the graph,     *)
(* and the ranking is an input (any query, any geometry).                  *)
(***************************************************************************)
EXTENDS Integers, Sequences, FiniteSets, TLC

\* ------------------------------------------------------------------ bounds
\* ids are capped: no insert is taken once next_id has reached MaxId
MaxId == 2
\* the cap of the runs that exercise search
MaxSearchId == 5
\* largest k of a search
MaxK == 2
\* the cap of the runs of the watcher over a file tree
MaxWatchId == 5
\* most items one file parses to
\* feedback signals learned in a run, of any kinds and queries
MaxSignals == 2
\* feedback signals learned in a run of one signal
MaxRepeat == 10
MaxLoopSignals == 1
MaxTreeFiles == 1
MaxTerms == 3
\* the files a tree holds when the end of a cycle is looked at
MaxStored == 5

\* --------------------------------------------------------------- constants
EMBEDDING_DIM == 384
PERSIST_VERSION_V2 == 2
\* the watcher's compaction threshold (0.20), in percent
COMPACT_THRESHOLD == 20
MAX_RETRIES == 3
MAX_FILE_SIZE == 100000
\* SONA's weights are counted in millionths: 0.15 and 0.05
MAX_ADJUSTMENT == 150000
BASE_LR == 50000

\* ------------------------------------------------------------ input values
Paths == {<<97>>, <<98>>}
\* a vector of the embedder's dimension and one of another length
GoodVec == [len |-> EMBEDDING_DIM, val |-> 1]
BadVec == [len |-> EMBEDDING_DIM - 1, val |-> 2]
Vectors == {GoodVec, BadVec}
\* the modification times a file can have
Mtimes == {1, 2}
\* a path of the tree: no file, or a file of some mtime and size
NoFile == [exists |-> FALSE, mtime |-> 0, size |-> 0]
FileAt(mtime, size) == [exists |-> TRUE, mtime |-> mtime, size |-> size]
\* the tree without files
NoFiles == [p \in Paths |-> NoFile]
IndexMetadata(p) == [path |-> p]
\* an item handed to insert / insert_batch: (vector, metadata)
Items == {[vector |-> v, metadata |-> IndexMetadata(p)] : v \in Vectors, p \in Paths}
\* the items the indexer builds: the embedder yields vectors of EMBEDDING_DIM
GoodItems == {it \in Items : it.vector.len = EMBEDDING_DIM}

\* ------------------------------------------------------------- map helpers
EmptyMap == [x \in {} |-> 0]
MapPut(m, k, v) == [x \in (DOMAIN m) \cup {k} |-> IF x = k THEN v ELSE m[x]]
MapDel(m, S) == [x \in (DOMAIN m) \ S |-> m[x]]
Min(a, b) == IF a < b THEN a ELSE b
SatSub(a, b) == IF a > b THEN a - b ELSE 0

RECURSIVE SortedSeq(_)
\* the elements of a finite set of integers in ascending order
SortedSeq(S) ==
    IF S = {} THEN <<>>
    ELSE LET m == CHOOSE x \in S : \A y \in S : x <= y
         IN <<m>> \o SortedSeq(S \ {m})

\* ------------------------------------------------------------ the VectorDB
\* VectorDB::new
NewDB == [hnsw |-> {}, metadata |-> EmptyMap, vectors |-> EmptyMap,
          next_id |-> 0, tombstones |-> {}]

\* VectorDB::insert: the result is the store after the call and the id
insert_NoBump(db, vector, metadata) ==
    IF vector.len # EMBEDDING_DIM
    THEN [db |-> db, ids |-> <<>>, panicked |-> TRUE]
    ELSE LET id == db.next_id
         IN [db |-> [db EXCEPT !.hnsw = @ \cup {id},
                               !.vectors = MapPut(@, id, vector),
                               !.metadata = MapPut(@, id, metadata)],
             ids |-> <<id>>, panicked |-> FALSE]

insert(db, vector, metadata) ==
    IF vector.len # EMBEDDING_DIM
    THEN [db |-> db, ids |-> <<>>, panicked |-> TRUE]
    ELSE LET id == db.next_id
         IN [db |-> [db EXCEPT !.next_id = id + 1,
                               !.hnsw = @ \cup {id},
                               !.vectors = MapPut(@, id, vector),
                               !.metadata = MapPut(@, id, metadata)],
             ids |-> <<id>>, panicked |-> FALSE]

\* VectorDB::insert_batch
insert_batch(db, items) ==
    IF items = <<>>
    THEN [db |-> db, ids |-> <<>>, panicked |-> FALSE]
    ELSE LET start_id == db.next_id
             n == Len(items)
             new == {start_id + i - 1 : i \in 1..n}
             item(id) == items[id - start_id + 1]
         IN [db |-> [db EXCEPT
                 !.vectors = [x \in (DOMAIN @) \cup new |->
                                 IF x \in new THEN item(x).vector ELSE @[x]],
                 !.metadata = [x \in (DOMAIN @) \cup new |->
                                 IF x \in new THEN item(x).metadata ELSE @[x]],
                 !.hnsw = @ \cup new,
                 !.next_id = start_id + n],
             ids |-> [i \in 1..n |-> start_id + i - 1],
             panicked |-> FALSE]

\* VectorDB::tombstone
tombstone(db, id) == [db EXCEPT !.tombstones = @ \cup {id}]

\* VectorDB::remove_by_path: the ids whose metadata has the path
PathIds(db, path) == {id \in DOMAIN db.metadata : db.metadata[id].path = path}

remove_by_path_First(db, path) ==
    LET first == IF PathIds(db, path) = {} THEN {}
                 ELSE {CHOOSE i \in PathIds(db, path) :
                          \A j \in PathIds(db, path) : i <= j}
    IN [db |-> [db EXCEPT !.tombstones = @ \cup first],
        ids |-> SortedSeq(first)]

remove_by_path(db, path) ==
    [db |-> [db EXCEPT !.tombstones = @ \cup PathIds(db, path)],
     ids |-> SortedSeq(PathIds(db, path))]

\* VectorDB::compact
compact_KeepGraph(db) ==
    IF db.tombstones = {} THEN db
    ELSE LET meta == MapDel(db.metadata, db.tombstones)
             vecs == MapDel(db.vectors, db.tombstones)
         IN [db EXCEPT !.metadata = meta, !.vectors = vecs, !.tombstones = {}]

compact_KeepVectors(db) ==
    IF db.tombstones = {} THEN db
    ELSE LET meta == MapDel(db.metadata, db.tombstones)
         IN [db EXCEPT !.metadata = meta, !.hnsw = DOMAIN db.vectors,
                       !.tombstones = {}]

compact(db) ==
    IF db.tombstones = {} THEN db
    ELSE LET meta == MapDel(db.metadata, db.tombstones)
             vecs == MapDel(db.vectors, db.tombstones)
         IN [db EXCEPT !.metadata = meta, !.vectors = vecs,
                       !.hnsw = DOMAIN vecs, !.tombstones = {}]

\* VectorDB::len
len(db) == SatSub(Cardinality(DOMAIN db.metadata), Cardinality(db.tombstones))

\* VectorDB::clear
clear(db) == NewDB

\* the live ids: stored and not tombstoned
LiveIds(db) == (DOMAIN db.metadata) \ db.tombstones

\* VectorDB::tombstone_ratio reaches `pct` percent
tombstone_ratio_over_OrEqual(db, pct) ==
    /\ DOMAIN db.vectors # {}
    /\ 100 * Cardinality(db.tombstones) >= pct * Cardinality(DOMAIN db.vectors)

\* VectorDB::tombstone_ratio exceeds `pct` percent
tombstone_ratio_over(db, pct) ==
    /\ DOMAIN db.vectors # {}
    /\ 100 * Cardinality(db.tombstones) > pct * Cardinality(DOMAIN db.vectors)

\* the distance rankings of a set of points: its elements in some order
Rankings(S) ==
    {r \in [1..Cardinality(S) -> S] : \A i, j \in 1..Cardinality(S) :
                                          i # j => r[i] # r[j]}

\* Hnsw::search: the knbn nearest points of the graph, nearest first
hnsw_search(ranking, knbn) == SubSeq(ranking, 1, Min(knbn, Len(ranking)))

SearchResult(db, id) == [id |-> id, metadata |-> db.metadata[id]]

\* the tombstone headroom of search and hybrid_search
extra(db, k) ==
    IF db.tombstones = {} THEN 0 ELSE Min(Cardinality(db.tombstones), k)

\* VectorDB::search with the graph's ranking for the query
search_NoFilter(db, query, ranking, k) ==
    IF query.len # EMBEDDING_DIM
    THEN [results |-> <<>>, panicked |-> TRUE]
    ELSE LET fetch == k + extra(db, k)
             results == hnsw_search(ranking, fetch)
             HasMeta(id) == id \in DOMAIN db.metadata
             found == SelectSeq(results, HasMeta)
             taken == SubSeq(found, 1, Min(k, Len(found)))
         IN [results |-> [i \in 1..Len(taken) |-> SearchResult(db, taken[i])],
             panicked |-> FALSE]

search(db, query, ranking, k) ==
    IF query.len # EMBEDDING_DIM
    THEN [results |-> <<>>, panicked |-> TRUE]
    ELSE LET fetch == k + extra(db, k)
             results == hnsw_search(ranking, fetch)
             NotTombstoned(id) == id \notin db.tombstones
             HasMeta(id) == id \in DOMAIN db.metadata
             found == SelectSeq(SelectSeq(results, NotTombstoned), HasMeta)
             taken == SubSeq(found, 1, Min(k, Len(found)))
         IN [results |-> [i \in 1..Len(taken) |-> SearchResult(db, taken[i])],
             panicked |-> FALSE]

\* VectorDB::hybrid_search: `byScore` is the order of the final scores
\* (semantic score, keyword bonus and SONA adjustment), best first
hybrid_search(db, query, ranking, byScore, k) ==
    IF query.len # EMBEDDING_DIM
    THEN [results |-> <<>>, panicked |-> TRUE]
    ELSE LET candidates == k * 3 + extra(db, k)
             results == hnsw_search(ranking, candidates)
             NotTombstoned(id) == id \notin db.tombstones
             HasMeta(id) == id \in DOMAIN db.metadata
             found == SelectSeq(SelectSeq(results, NotTombstoned), HasMeta)
             Scored(id) == \E i \in 1..Len(found) : found[i] = id
             scored == SelectSeq(byScore, Scored)
             taken == SubSeq(scored, 1, Min(k, Len(scored)))
         IN [results |-> [i \in 1..Len(taken) |-> SearchResult(db, taken[i])],
             panicked |-> FALSE]

\* ------------------------------------------------------ the on-disk format
\* bincode writes a usize as 8 little-endian bytes (values below 2^31 here)
U64(n) == <<n % 256, (n \div 256) % 256, (n \div 65536) % 256,
            (n \div 16777216) % 256, 0, 0, 0, 0>>

RECURSIVE Concat(_)
Concat(ss) == IF ss = <<>> THEN <<>> ELSE Head(ss) \o Concat(Tail(ss))

\* a String: its length, then its bytes
SerString(str) == U64(Len(str)) \o str
\* an IndexMetadata (its path)
SerMeta(m) == SerString(m.path)
\* a Vec<f32>: its length, then the payload (one byte in the model)
SerVec(v) == U64(v.len) \o <<v.val>>
\* a HashMap<usize, _>: the number of entries, then each key and value
SerMetaMap(m) ==
    LET keys == SortedSeq(DOMAIN m)
    IN U64(Len(keys)) \o
       Concat([i \in 1..Len(keys) |-> U64(keys[i]) \o SerMeta(m[keys[i]])])
SerVecMap(m) ==
    LET keys == SortedSeq(DOMAIN m)
    IN U64(Len(keys)) \o
       Concat([i \in 1..Len(keys) |-> U64(keys[i]) \o SerVec(m[keys[i]])])
\* a HashSet<usize>
SerIdSet(S) ==
    LET keys == SortedSeq(S)
    IN U64(Len(keys)) \o Concat([i \in 1..Len(keys) |-> U64(keys[i])])

\* PersistedState (V1): metadata, vectors, next_id
SerializeV1(st) ==
    SerMetaMap(st.metadata) \o SerVecMap(st.vectors) \o U64(st.next_id)
\* PersistedStateV2: metadata, vectors, next_id, tombstones
SerializeV2_NoTombstones(st) ==
    SerMetaMap(st.metadata) \o SerVecMap(st.vectors) \o U64(st.next_id)
        \o SerIdSet({})
SerializeV2(st) ==
    SerMetaMap(st.metadata) \o SerVecMap(st.vectors) \o U64(st.next_id)
        \o SerIdSet(st.tombstones)

\* A read yields [ok, val, pos, big]: pos is the index of the next unread
\* byte, big says that the value read is 2^31 or more (val is then 0).
ReadFail == [ok |-> FALSE, val |-> 0, pos |-> 0, big |-> FALSE]
ReadOk(val, pos) == [ok |-> TRUE, val |-> val, pos |-> pos, big |-> FALSE]

ReadU64(b, p) ==
    IF p + 7 > Len(b) THEN ReadFail
    ELSE IF b[p + 3] >= 128 \/ \E i \in 4..7 : b[p + i] # 0
         THEN [ok |-> TRUE, val |-> 0, pos |-> p + 8, big |-> TRUE]
         ELSE ReadOk(b[p] + 256 * b[p + 1] + 65536 * b[p + 2]
                         + 16777216 * b[p + 3], p + 8)

\* a length prefix `r`: more elements than bytes remain ends in an EOF error
LenOf(b, r) ==
    IF ~r.ok \/ r.big \/ r.val > Len(b) - r.pos + 1 THEN ReadFail ELSE r
ReadLen(b, p) == LenOf(b, ReadU64(b, p))

\* a String after its length `n`: the bytes must be UTF-8 (ASCII here)
StringOf(b, n) ==
    IF ~n.ok THEN ReadFail
    ELSE IF \E i \in n.pos..(n.pos + n.val - 1) : b[i] >= 128 THEN ReadFail
    ELSE ReadOk(SubSeq(b, n.pos, n.pos + n.val - 1), n.pos + n.val)
ReadString(b, p) == StringOf(b, ReadLen(b, p))

MetaOf(s) == IF ~s.ok THEN ReadFail ELSE ReadOk([path |-> s.val], s.pos)
ReadMeta(b, p) == MetaOf(ReadString(b, p))

\* a Vec<f32> after its length `n`
VecOf(b, n) ==
    IF ~n.ok \/ n.big \/ n.pos > Len(b) THEN ReadFail
    ELSE ReadOk([len |-> n.val, val |-> b[n.pos]], n.pos + 1)
ReadVec(b, p) == VecOf(b, ReadU64(b, p))

ReadValue(b, p, kind) ==
    IF kind = "meta" THEN ReadMeta(b, p) ELSE ReadVec(b, p)

\* the n entries of a map of `kind` values, or of a set of ids
RECURSIVE ReadEntries(_, _, _, _, _)
RECURSIVE EntryKey(_, _, _, _, _)
RECURSIVE EntryValue(_, _, _, _, _, _)
ReadEntries(b, p, n, acc, kind) ==
    IF n = 0 THEN ReadOk(acc, p) ELSE EntryKey(b, ReadU64(b, p), n, acc, kind)
EntryKey(b, k, n, acc, kind) ==
    IF ~k.ok \/ k.big THEN ReadFail
    ELSE IF kind = "id" THEN ReadEntries(b, k.pos, n - 1, acc \cup {k.val}, kind)
    ELSE EntryValue(b, k.val, ReadValue(b, k.pos, kind), n, acc, kind)
EntryValue(b, key, v, n, acc, kind) ==
    IF ~v.ok THEN ReadFail
    ELSE ReadEntries(b, v.pos, n - 1, MapPut(acc, key, v.val), kind)

EntriesOf(b, n, acc, kind) ==
    IF ~n.ok THEN ReadFail ELSE ReadEntries(b, n.pos, n.val, acc, kind)
ReadMetaMap(b, p) == EntriesOf(b, ReadLen(b, p), EmptyMap, "meta")
ReadVecMap(b, p) == EntriesOf(b, ReadLen(b, p), EmptyMap, "vec")
ReadIdSet(b, p) == EntriesOf(b, ReadLen(b, p), {}, "id")

DeserFail == [ok |-> FALSE, state |-> NewDB]

\* bincode::deserialize::<PersistedState>: metadata, vectors, next_id
V1NextId(meta, vecs, n) ==
    IF ~n.ok \/ n.big THEN DeserFail
    ELSE [ok |-> TRUE,
          state |-> [metadata |-> meta, vectors |-> vecs, next_id |-> n.val]]
V1Vectors(b, meta, v) ==
    IF ~v.ok THEN DeserFail ELSE V1NextId(meta, v.val, ReadU64(b, v.pos))
V1Metadata(b, m) ==
    IF ~m.ok THEN DeserFail ELSE V1Vectors(b, m.val, ReadVecMap(b, m.pos))
DeserializeV1(b) == V1Metadata(b, ReadMetaMap(b, 1))

\* bincode::deserialize::<PersistedStateV2>: ... and the tombstones
V2Tombstones(meta, vecs, next, t) ==
    IF ~t.ok THEN DeserFail
    ELSE [ok |-> TRUE,
          state |-> [metadata |-> meta, vectors |-> vecs, next_id |-> next,
                     tombstones |-> t.val]]
V2NextId(b, meta, vecs, n) ==
    IF ~n.ok \/ n.big THEN DeserFail
    ELSE V2Tombstones(meta, vecs, n.val, ReadIdSet(b, n.pos))
V2Vectors(b, meta, v) ==
    IF ~v.ok THEN DeserFail ELSE V2NextId(b, meta, v.val, ReadU64(b, v.pos))
V2Metadata(b, m) ==
    IF ~m.ok THEN DeserFail ELSE V2Vectors(b, m.val, ReadVecMap(b, m.pos))
DeserializeV2(b) == V2Metadata(b, ReadMetaMap(b, 1))

\* VectorDB::from_state: every vector goes into a fresh graph
from_state(st) ==
    [hnsw |-> DOMAIN st.vectors, metadata |-> st.metadata,
     vectors |-> st.vectors, next_id |-> st.next_id, tombstones |-> {}]

\* VectorDB::from_state_v2: the tombstoned vectors are left out of the graph
from_state_v2(st) ==
    [hnsw |-> (DOMAIN st.vectors) \ st.tombstones, metadata |-> st.metadata,
     vectors |-> st.vectors, next_id |-> st.next_id,
     tombstones |-> st.tombstones]

\* VectorDB::load on the bytes of the file: [ok, db]; ~ok is FormatChanged
LoadedV1(d) ==
    IF d.ok THEN [ok |-> TRUE, db |-> from_state(d.state)]
    ELSE [ok |-> FALSE, db |-> NewDB]
LoadedV2(d) ==
    IF d.ok THEN [ok |-> TRUE, db |-> from_state_v2(d.state)]
    ELSE [ok |-> FALSE, db |-> NewDB]
load(bytes) ==
    IF bytes = <<>> THEN [ok |-> TRUE, db |-> NewDB]
    ELSE IF bytes[1] = PERSIST_VERSION_V2
    THEN LoadedV2(DeserializeV2(Tail(bytes)))
    ELSE LoadedV1(DeserializeV1(bytes))

\* a file of the database directory
Absent == [exists |-> FALSE, bytes |-> <<>>]
FileOf(bytes) == [exists |-> TRUE, bytes |-> bytes]

\* VectorDB::open on the directory [db: the file at `path`, bin: the file
\* at path.with_extension("bin")]: the store and the directory afterwards.
\* A file whose format is not understood is removed and a new store made.
Opened(l, kept, removed) ==
    IF l.ok THEN [db |-> l.db, dir |-> kept]
    ELSE [db |-> NewDB, dir |-> removed]
open(dir) ==
    IF dir.db.exists
    THEN Opened(load(dir.db.bytes), dir, [dir EXCEPT !.db = Absent])
    ELSE IF dir.bin.exists
    THEN Opened(load(dir.bin.bytes), [db |-> dir.bin, bin |-> Absent],
                [db |-> Absent, bin |-> Absent])
    ELSE [db |-> NewDB, dir |-> dir]

\* VectorDB::save: the version byte, the V2 payload, the legacy file removed
save(db, dir) ==
    [db |-> FileOf(<<PERSIST_VERSION_V2>> \o SerializeV2(db)), bin |-> Absent]

\* a store as a legacy version of the program left it: n entries, ids 0..n-1
LegacyState(n, s) ==
    [metadata |-> [id \in 0..(n - 1) |-> IndexMetadata(<<97 + ((id + s) % 2)>>)],
     vectors |-> [id \in 0..(n - 1) |-> GoodVec],
     next_id |-> n]
LegacyStates == {LegacyState(n, s) : n \in 0..MaxId, s \in 0..1}
LegacyFiles == {FileOf(SerializeV1(st)) : st \in LegacyStates}

\* ---------------------------------------------------------------- the SONA
\* An f32 weight is modelled by an integer number of millionths, a product
\* or quotient by its value rounded down.  A query is the sequence of its
\* whitespace-separated terms; pattern_hash is modelled by the set of terms
\* it hashes.  A candidate's metadata is modelled by the set of features
\* apply_features finds in it.  The LoRA matrices are modelled by the
\* sequence of the non-zero updates made to them.
Features == {"is_plugin", "is_observer", "is_controller", "is_block",
             "class_match", "config_match", "config_xml_dir"}

\* learn: negative_features
NegativeFeatures == {"is_plugin", "is_observer", "is_controller", "is_block",
                     "class_match", "config_match"}

RecognizedKinds == {"refinement_to_plugin", "refinement_to_class",
                    "refinement_to_config", "refinement_to_observer",
                    "refinement_to_controller", "refinement_to_block",
                    "trace_after_search"}

Kinds == RecognizedKinds \cup {"refinement_to_helper"}

\* learn: the feature a kind of signal reinforces
FeatureOf(kind) ==
    CASE kind = "refinement_to_plugin" -> "is_plugin"
      [] kind = "refinement_to_class" -> "class_match"
      [] kind = "refinement_to_config" -> "config_match"
      [] kind = "refinement_to_observer" -> "is_observer"
      [] kind = "refinement_to_controller" -> "is_controller"
      [] kind = "refinement_to_block" -> "is_block"
      [] kind = "trace_after_search" -> "is_controller"
      [] OTHER -> "none"

\* terms of fewer than 3 bytes
ShortTerms == {"to"}

\* the queries: the empty string, one of short terms only, longer ones
Queries == {<<>>, <<"to">>, <<"cart">>, <<"cart", "totals">>}

\* SonaEngine::normalize_terms
normalize_terms(query) == {query[i] : i \in 1..Len(query)} \ ShortTerms

\* SonaEngine::pattern_hash: a hash of the normalized terms
pattern_hash(query) == normalize_terms(query)

NoQuery == <<"none">>

\* a SonaSignal: type, query, original_query (NoQuery: None); the signals
\* with a query, and those with an original query in its place
Signals ==
    [kind : Kinds, query : Queries, original_query : {NoQuery}]
        \cup [kind : Kinds, query : {<<>>}, original_query : {<<"cart">>}]

NoSignal == [kind |-> "none", query |-> <<>>, original_query |-> NoQuery]

\* HashMap<String, f32>::entry(f).or_insert(0.0)
Weight(adj, f) == IF f \in DOMAIN adj THEN adj[f] ELSE 0

\* HashMap::entry(k).or_default() / or_insert(0)
Entry(m, k, default) == IF k \in DOMAIN m THEN m[k] ELSE default

\* LearnedWeights::default, MicroLoRA::default, EwcRegularizer::default
NewSona ==
    [learned |-> [adjustments |-> EmptyMap, counts |-> EmptyMap,
                  global_bias |-> EmptyMap, global_count |-> 0,
                  term_adjustments |-> EmptyMap, term_counts |-> EmptyMap],
     lora |-> [updates |-> <<>>, update_count |-> 0],
     ewc |-> [fisher |-> <<>>, star_weights |-> [zeros |-> TRUE, updates |-> <<>>],
              update_count |-> 0]]

\* learn, on one feature map: the followed feature gains `up`, every other
\* negative feature loses a tenth of it
Reinforce(adj, feature, up) ==
    LET touched == (DOMAIN adj) \cup NegativeFeatures \cup {feature}
    IN [f \in touched |->
          IF f = feature
          THEN Min(Weight(adj, f) + up, MAX_ADJUSTMENT)
          ELSE IF f \in NegativeFeatures
          THEN -Min(up \div 10 - Weight(adj, f), MAX_ADJUSTMENT)
          ELSE Weight(adj, f)]

\* learn, for a "refinement_to_config" signal: config_xml_dir gains lr * 0.5
WithConfigDir(adj, kind, lr) ==
    IF kind = "refinement_to_config"
    THEN MapPut(adj, "config_xml_dir",
                Min(Weight(adj, "config_xml_dir") + lr \div 2, MAX_ADJUSTMENT))
    ELSE adj

\* the query learn uses: signal.query, or original_query if that is empty
QueryOf(signal) ==
    IF signal.query = <<>> THEN signal.original_query ELSE signal.query

\* SonaEngine::learn
learn(s, signal) ==
    IF QueryOf(signal) = NoQuery \/ signal.kind \notin RecognizedKinds THEN s
    ELSE
    LET query == QueryOf(signal)
        feature == FeatureOf(signal.kind)
        pattern == pattern_hash(query)
        count == Entry(s.learned.counts, pattern, 0) + 1
        lr == (BASE_LR * 10) \div (10 + count)
        global_lr == (lr * 3) \div 10
        term_lr == lr \div 2
        terms == normalize_terms(query)
    IN [s EXCEPT
          !.learned.counts = MapPut(@, pattern, count),
          !.learned.adjustments =
              MapPut(@, pattern,
                     WithConfigDir(Reinforce(Entry(@, pattern, EmptyMap),
                                             feature, lr),
                                   signal.kind, lr)),
          !.learned.global_count = @ + 1,
          !.learned.global_bias = Reinforce(@, feature, global_lr),
          !.learned.term_counts =
              [t \in (DOMAIN @) \cup terms |->
                  IF t \in terms THEN Entry(@, t, 0) + 1 ELSE @[t]],
          !.learned.term_adjustments =
              [t \in (DOMAIN @) \cup terms |->
                  IF t \in terms
                  THEN Reinforce(Entry(@, t, EmptyMap), feature, term_lr)
                  ELSE @[t]]]

RECURSIVE apply_features(_, _)
\* SonaEngine::apply_features: the sum of the weights of the features the
\* metadata has
apply_features(adj, meta) ==
    IF meta = {} THEN 0
    ELSE LET f == CHOOSE x \in meta : TRUE
         IN Weight(adj, f) + apply_features(adj, meta \ {f})

RECURSIVE TermSum(_, _, _)
TermSum(s, terms, meta) ==
    IF terms = {} THEN 0
    ELSE LET t == CHOOSE x \in terms : TRUE
         IN apply_features(s.learned.term_adjustments[t], meta)
            + TermSum(s, terms \ {t}, meta)

\* f32::clamp
clamp(x, lo, hi) == IF x < lo THEN lo ELSE IF x > hi THEN hi ELSE x

\* score_adjustment before the final clamp
RawAdjustment(s, query, meta) ==
    LET pattern == pattern_hash(query)
        seen == normalize_terms(query) \cap DOMAIN s.learned.term_adjustments
        byHash == IF pattern \in DOMAIN s.learned.adjustments
                  THEN apply_features(s.learned.adjustments[pattern], meta)
                  ELSE 0
        byTerm == IF seen # {}
                  THEN ((TermSum(s, seen, meta) \div Cardinality(seen)) * 7) \div 10
                  ELSE 0
        byGlobal == IF s.learned.global_count > 0
                    THEN (apply_features(s.learned.global_bias, meta) * 3) \div 10
                    ELSE 0
    IN byHash + byTerm + byGlobal

score_adjustment_NoClamp(s, query, meta) == RawAdjustment(s, query, meta)

\* SonaEngine::score_adjustment
score_adjustment(s, query, meta) ==
    clamp(RawAdjustment(s, query, meta), -MAX_ADJUSTMENT, MAX_ADJUSTMENT)

\* the weights of the LoRA matrices, as EwcRegularizer::flatten_lora copies them
flatten_lora(lora) == [zeros |-> FALSE, updates |-> lora.updates]

\* MicroLoRA::update_from_signal: with target = query the delta is zero and
\* the matrices keep their values; the update counter moves in any case
update_from_signal(lora, q, t) ==
    [updates |-> IF q = t THEN lora.updates
                 ELSE Append(lora.updates, <<q.val, t.val>>),
     update_count |-> lora.update_count + 1]

\* EwcRegularizer::regularize: pulls the weights toward the star weights
\* where the Fisher diagonal is not zero
regularize(ewc, lora) ==
    IF ewc.update_count = 0 THEN lora
    ELSE IF (\E i \in 1..Len(ewc.fisher) : ewc.fisher[i] = 1)
            /\ flatten_lora(lora) # ewc.star_weights
    THEN [lora EXCEPT !.updates = Append(@, <<0, 0>>)]
    ELSE lora

\* EwcRegularizer::update_fisher: the running average takes in the squared
\* difference to the star weights (1: not zero), which become the current ones
update_fisher(ewc, lora) ==
    [fisher |-> IF ewc.update_count = 0 THEN ewc.fisher
                ELSE Append(ewc.fisher,
                            IF flatten_lora(lora) = ewc.star_weights THEN 0 ELSE 1),
     star_weights |-> flatten_lora(lora),
     update_count |-> ewc.update_count + 1]

\* another embedding than GoodVec
OtherVec == [len |-> EMBEDDING_DIM, val |-> 3]

\* the (query_emb, target_emb) arguments, each an Option<&[f32]>: the empty
\* set is None
EmbeddingPairs ==
    {<<{}, {}>>, <<{}, {GoodVec}>>, <<{GoodVec}, {GoodVec}>>,
     <<{GoodVec}, {OtherVec}>>, <<{GoodVec}, {BadVec}>>}

\* SonaEngine::learn_with_embeddings
learn_with_embeddings(s, signal, query_emb, target_emb) ==
    LET s1 == learn(s, signal)
    IN IF /\ query_emb # {} /\ target_emb # {}
          /\ \A q \in query_emb : q.len = EMBEDDING_DIM
          /\ \A t \in target_emb : t.len = EMBEDDING_DIM
       THEN LET q == CHOOSE x \in query_emb : TRUE
                t == CHOOSE x \in target_emb : TRUE
                lora1 == update_from_signal(s1.lora, q, t)
                lora2 == regularize(s1.ewc, lora1)
            IN [s1 EXCEPT !.lora = lora2, !.ewc = update_fisher(@, lora2)]
       ELSE s1

\* the SONA file: whether it exists, is empty, starts with the V2 version
\* byte, deserializes, and the state it holds
NoSonaFile ==
    [exists |-> FALSE, empty |-> FALSE, v2 |-> FALSE, ok |-> FALSE,
     state |-> NewSona]

\* SonaEngine::save: the version byte, then the state
SavedSona(s) ==
    [exists |-> TRUE, empty |-> FALSE, v2 |-> TRUE, ok |-> TRUE, state |-> s]

\* a SONA file of an older schema: no version byte, the learned weights alone
LegacySona(s) ==
    [exists |-> TRUE, empty |-> FALSE, v2 |-> FALSE, ok |-> TRUE, state |-> s]

\* a SONA file whose payload does not deserialize
BrokenSona(v2) ==
    [exists |-> TRUE, empty |-> FALSE, v2 |-> v2, ok |-> FALSE,
     state |-> NewSona]

\* a SONA file of no bytes
EmptySona ==
    [exists |-> TRUE, empty |-> TRUE, v2 |-> FALSE, ok |-> FALSE,
     state |-> NewSona]

\* SonaEngine::open: Err when the file cannot be read or its payload does
\* not deserialize; a V1 file gives its weights and a default LoRA and EWC
sona_open(f) ==
    IF ~f.exists THEN [ok |-> FALSE, engine |-> NewSona]
    ELSE IF f.empty THEN [ok |-> TRUE, engine |-> NewSona]
    ELSE IF ~f.ok THEN [ok |-> FALSE, engine |-> NewSona]
    ELSE IF f.v2 THEN [ok |-> TRUE, engine |-> f.state]
    ELSE [ok |-> TRUE, engine |-> [NewSona EXCEPT !.learned = f.state.learned]]

\* ------------------------------------------------ the keyword bonus
\* hybrid_search's bonus for one candidate, in hundredths. A field of the
\* candidate (the lowercased path, search text, class name, framework type)
\* is the set of the query terms it contains; a candidate without a class
\* name or a type has the field NoField
NoField == {"<none>"}
Contained(field, term) == field # NoField /\ term \in field

\* the four tests of one term: what they add, and how many of them matched
TermBonus(meta, term) ==
    LET path == IF Contained(meta.path, term) THEN 8 ELSE 0
        text == IF Contained(meta.search_text, term) THEN 3 ELSE 0
        class == IF Contained(meta.class_name, term) THEN 6 ELSE 0
        type == IF Contained(meta.magento_type, term) THEN 10 ELSE 0
    IN [bonus |-> path + text + class + type,
        matched |-> Cardinality({f \in {"path", "text", "class", "type"} :
                       \/ f = "path" /\ path > 0
                       \/ f = "text" /\ text > 0
                       \/ f = "class" /\ class > 0
                       \/ f = "type" /\ type > 0})]

RECURSIVE TermsBonus(_, _)
\* the loop over the query terms, those shorter than 3 characters skipped
TermsBonus(meta, query_terms) ==
    IF query_terms = <<>> THEN [bonus |-> 0, matched |-> 0]
    ELSE LET rest == TermsBonus(meta, Tail(query_terms))
             term == Head(query_terms)
         IN IF term \in ShortTerms THEN rest
            ELSE [bonus |-> TermBonus(meta, term).bonus + rest.bonus,
                  matched |-> TermBonus(meta, term).matched + rest.matched]

\* the boost for a query that names the type "plugin"
PluginBoost(meta, query_terms) ==
    IF /\ \E i \in 1..Len(query_terms) : query_terms[i] = "plugin"
       /\ \/ meta.magento_type = {"plugin"}
          \/ meta.in_plugin_dir
          \/ meta.is_plugin
    THEN 15 ELSE 0

\* the bonus with the multi-term bonus given from `least` matches on
keyword_bonus_From(meta, query_terms, least) ==
    LET terms == TermsBonus(meta, query_terms)
        many == terms.matched >= least
        sum == terms.bonus + PluginBoost(meta, query_terms)
                   + (IF many THEN 5 ELSE 0)
    IN [matched_terms |-> terms.matched, many |-> many,
        keyword_bonus |-> Min(sum, 45)]

\* the keyword bonus of hybrid_search
keyword_bonus(meta, query_terms) == keyword_bonus_From(meta, query_terms, 3)

\* ------------------------------------------------ the role flags
\* str::to_lowercase on a path component
to_lowercase(c) ==
    CASE c = "Controller" -> "controller"
      [] c = "Plugin" -> "plugin"
      [] c = "Observer" -> "observer"
      [] c = "Block" -> "block"
      [] c = "Model" -> "model"
      [] c = "Index.php" -> "index.php"
      [] c = "CartRepository.php" -> "cartrepository.php"
      [] OTHER -> c

\* path_lower.contains("/<dir>/"): a component of that name with a component
\* before it and one after it
ContainsDir(path, name) ==
    \E i \in 2..(Len(path) - 1) : to_lowercase(path[i]) = name

\* path_lower.contains("repository")
ContainsRepository(path) ==
    \E i \in 1..Len(path) : to_lowercase(path[i]) = "cartrepository.php"

\* a file the PHP analyzer did not analyze
NoAst == [analyzed |-> FALSE, is_controller |-> FALSE, is_repository |-> FALSE,
          is_plugin |-> FALSE, is_observer |-> FALSE, is_model |-> FALSE,
          is_block |-> FALSE]

\* build_metadata taking the analyzer's flags alone for an analyzed file
build_metadata_AstOnly(path, php_ast) ==
    IF php_ast.analyzed
    THEN [is_controller |-> php_ast.is_controller,
          is_repository |-> php_ast.is_repository,
          is_plugin |-> php_ast.is_plugin,
          is_observer |-> php_ast.is_observer,
          is_model |-> php_ast.is_model,
          is_block |-> php_ast.is_block]
    ELSE [is_controller |-> ContainsDir(path, "controller"),
          is_repository |->
              ContainsDir(path, "model") /\ ContainsRepository(path),
          is_plugin |-> ContainsDir(path, "plugin"),
          is_observer |-> ContainsDir(path, "observer"),
          is_model |-> FALSE,
          is_block |-> ContainsDir(path, "block")]

\* Indexer::build_metadata: the role flags of the metadata
build_metadata(path, php_ast) ==
    LET path_is_plugin == ContainsDir(path, "plugin")
        path_is_repository ==
            ContainsDir(path, "model") /\ ContainsRepository(path)
        path_is_controller == ContainsDir(path, "controller")
        path_is_observer == ContainsDir(path, "observer")
        path_is_block == ContainsDir(path, "block")
    IN IF php_ast.analyzed
       THEN [is_controller |-> php_ast.is_controller \/ path_is_controller,
             is_repository |-> php_ast.is_repository \/ path_is_repository,
             is_plugin |-> php_ast.is_plugin \/ path_is_plugin,
             is_observer |-> php_ast.is_observer \/ path_is_observer,
             is_model |-> php_ast.is_model,
             is_block |-> php_ast.is_block \/ path_is_block]
       ELSE [is_controller |-> path_is_controller,
             is_repository |-> path_is_repository,
             is_plugin |-> path_is_plugin,
             is_observer |-> path_is_observer,
             is_model |-> FALSE,
             is_block |-> path_is_block]

\* the server thread between two requests: it holds no mutex and wants none
Idle == [held |-> <<>>, todo |-> <<>>]

\* ---------------------------------------------------------------- the state
VARIABLES
    db,          \* the VectorDB held in memory (in serve mode: behind the mutex)
    alive,       \* FALSE once a call has panicked: the store is gone
    dir,         \* the database directory: the file and its legacy .bin
    last,        \* the last call or request: its name, arguments and result
    maxIssued,   \* history: the largest id ever assigned, -1 if none
    wpc,         \* serve mode: where the watcher thread is in its loop
    lock,        \* serve mode: who holds the indexer mutex
    changes,     \* serve mode: the change set of the watcher's current cycle
    boundary,    \* history: the store as the last finished cycle left it
    files,       \* the source tree: path -> the file there, or NoFile
    manifest,    \* the watcher's FileManifest: tracked path -> FileRecord
    sona,        \* the SonaEngine of the indexer
    sig,         \* the last feedback signal handed to the engine
    sonaFile,    \* the file <db>.sona
    resp,        \* serve mode: the lines written to stdout for the last line read
    serving,     \* serve mode: the loop over stdin is running
    poisoned,    \* serve mode: a thread panicked while it held the indexer mutex
    fetch,       \* a network fetch: its attempts, its waits and its outcome
    probe,       \* a call of a function of the indexer: its input and its result
    returned,    \* serve mode: the paths index_files returned in this cycle
    built,       \* history: path -> the file as parse_file last read it
    slock,       \* serve mode: who holds the WatcherStatus mutex
    spc          \* serve mode: where the server thread is in a request

storeVars == <<db, alive, dir, last, maxIssued>>
\* what the watcher and the tree do not touch
\* what only the fetches and the calls of the indexer's functions touch
auxVars == <<fetch, probe, spc>>
\* what only the watcher's cycle and the holders of the status mutex touch
cycleVars == <<returned, built, slock>>
idleVars == <<sona, sig, sonaFile, resp, serving, poisoned, auxVars>>
restVars == <<idleVars, cycleVars>>
serveVars == <<wpc, lock, changes, boundary, files, manifest, sona, sig,
               sonaFile, resp, serving, poisoned, auxVars, cycleVars>>
vars == <<db, alive, dir, last, maxIssued, wpc, lock, changes, boundary,
          files, manifest, sona, sig, sonaFile, resp, serving, poisoned,
          fetch, probe, returned, built, slock, spc>>

Call(op, items, ids, panicked) ==
    [op |-> op, items |-> items, ids |-> ids, results |-> <<>>, k |-> 0,
     count |-> 0, panicked |-> panicked]

SeqSet(seq) == {seq[i] : i \in 1..Len(seq)}
SetMax(S, d) == IF S = {} THEN d ELSE CHOOSE x \in S : \A y \in S : y <= x

\* the batches of at most n items
Batches(items, n) == UNION {[1..m -> items] : m \in 0..n}

NoDir == [db |-> Absent, bin |-> Absent]
NoChanges == [added |-> {}, modified |-> {}, deleted |-> {}]

\* the directory as the program may find it at start: nothing, a legacy file
\* at the database path, or a legacy file at the .bin path
InitDirs ==
    {NoDir} \cup {[db |-> f, bin |-> Absent] : f \in LegacyFiles}
            \cup {[db |-> Absent, bin |-> f] : f \in LegacyFiles}

\* ---- the walk of the tree. A path is the sequence of its components,
\* directories first and the file's name last; all files have an extension
\* of INCLUDE_EXTENSIONS and are no larger than MAX_FILE_SIZE
EXCLUDE_DIRS ==
    <<"node_modules", "vendor/bin", ".git", "var", "pub/static", "generated",
      "dev/tests", "dev/tools", "Test", "Tests", "test", "tests", "_files",
      "fixtures", "performance-toolkit">>

\* Indexer::should_skip_dir: the directory's own name against every entry
should_skip_dir(name) == \E i \in 1..Len(EXCLUDE_DIRS) : name = EXCLUDE_DIRS[i]

\* filter_entry(|e| !should_skip_dir(e)): the walk does not descend into a
\* directory that is skipped
Walked(p) == \A i \in 1..(Len(p) - 1) : ~should_skip_dir(p[i])

\* Indexer::discover_files
discover_files(fs) ==
    {p \in DOMAIN fs : fs[p].exists /\ Walked(p) /\ fs[p].size <= MAX_FILE_SIZE}

\* FileManifest::from_existing_index: the files the walk sees, at their mtimes
from_existing_index(fs) ==
    [p \in {q \in DOMAIN fs : /\ fs[q].exists
                              /\ Walked(q)
                              /\ fs[q].size <= MAX_FILE_SIZE} |->
        [mtime |-> fs[p].mtime, size |-> fs[p].size]]

InitProcess(dirs, sonaFiles, trees) ==
    /\ db = NewDB
    /\ alive = TRUE
    /\ dir \in dirs
    /\ last = Call("new", <<>>, <<>>, FALSE)
    /\ maxIssued = -1
    /\ lock = "none"
    /\ changes = NoChanges
    /\ boundary = NewDB
    /\ files \in trees
    /\ sona = NewSona
    /\ sig = NoSignal
    /\ sonaFile \in sonaFiles
    /\ resp = <<>>
    /\ serving = TRUE
    /\ poisoned = FALSE
    /\ returned = {}
    /\ built = EmptyMap
    /\ slock = "none"
    /\ spc = Idle

\* the watcher has built its initial manifest and sleeps
InitBase(dirs, sonaFiles, trees) ==
    /\ InitProcess(dirs, sonaFiles, trees)
    /\ wpc = "sleep"
    /\ manifest = from_existing_index(files)

\* no fetch is under way and no function of the indexer is being called
NoFetch == [op |-> "none", pc |-> "done", url |-> "none", log |-> <<>>,
            waits |-> <<>>, retries |-> 0, outcome |-> "none"]
NoProbe == [op |-> "none"]

InitOver(dirs, sonaFiles, trees) ==
    /\ InitBase(dirs, sonaFiles, trees)
    /\ fetch = NoFetch
    /\ probe = NoProbe

InitWith(dirs, sonaFiles) == InitOver(dirs, sonaFiles, {NoFiles})

InitIn(dirs) == InitWith(dirs, {NoSonaFile})

Init == InitIn(InitDirs)

\* a call that panics takes the store with it
Panic(op, items) ==
    /\ db' = NewDB
    /\ alive' = FALSE
    /\ last' = Call(op, items, <<>>, TRUE)
    /\ UNCHANGED <<dir, maxIssued>>

Assigned(ids) ==
    maxIssued' = SetMax(SeqSet(ids) \cup {maxIssued}, maxIssued)

\* db.insert(&vector, metadata), while next_id is below `cap`
Insert(item, cap) ==
    /\ alive
    /\ db.next_id < cap
    /\ LET r == insert(db, item.vector, item.metadata)
       IN IF r.panicked
          THEN Panic("insert", <<item>>)
          ELSE /\ db' = r.db
               /\ last' = Call("insert", <<item>>, r.ids, FALSE)
               /\ Assigned(r.ids)
               /\ UNCHANGED <<alive, dir>>
    /\ UNCHANGED serveVars

\* db.insert_batch(items)
InsertBatch(items, cap) ==
    /\ alive
    /\ db.next_id + Len(items) <= cap
    /\ LET r == insert_batch(db, items)
       IN /\ db' = r.db
          /\ last' = Call("insert_batch", items, r.ids, FALSE)
          /\ Assigned(r.ids)
    /\ UNCHANGED <<alive, dir>>
    /\ UNCHANGED serveVars

\* db.tombstone(id), for any id
Tombstone(id) ==
    /\ alive
    /\ db' = tombstone(db, id)
    /\ last' = Call("tombstone", <<>>, <<>>, FALSE)
    /\ UNCHANGED <<alive, dir, maxIssued>>
    /\ UNCHANGED serveVars

\* db.remove_by_path(path)
RemoveByPath(path) ==
    /\ alive
    /\ LET r == remove_by_path(db, path)
       IN /\ db' = r.db
          /\ last' = Call("remove_by_path", <<>>, r.ids, FALSE)
    /\ UNCHANGED <<alive, dir, maxIssued>>
    /\ UNCHANGED serveVars

\* db.compact()
Compact ==
    /\ alive
    /\ db' = compact(db)
    /\ last' = Call("compact", <<>>, <<>>, FALSE)
    /\ UNCHANGED <<alive, dir, maxIssued>>
    /\ UNCHANGED serveVars

\* db.clear(), as the full re-index (Indexer::index) does before it inserts
Clear ==
    /\ alive
    /\ db' = clear(db)
    /\ last' = Call("clear", <<>>, <<>>, FALSE)
    /\ UNCHANGED <<alive, dir, maxIssued>>
    /\ UNCHANGED serveVars

\* db.save(path)
Save ==
    /\ alive
    /\ dir' = save(db, dir)
    /\ last' = Call("save", <<>>, <<>>, FALSE)
    /\ UNCHANGED <<db, alive, maxIssued>>
    /\ UNCHANGED serveVars

\* VectorDB::open(path): a store is built from what the directory holds; the
\* ids of the entries it loads were assigned before
Open ==
    /\ LET r == open(dir)
       IN /\ db' = r.db
          /\ dir' = r.dir
          /\ maxIssued' = SetMax((DOMAIN r.db.metadata) \cup {maxIssued},
                                 maxIssued)
    /\ alive' = TRUE
    /\ last' = Call("open", <<>>, <<>>, FALSE)
    /\ UNCHANGED serveVars

\* db.search(&query, k): the graph's ranking for the query is an input
Search(query, k, ranking) ==
    /\ alive
    /\ LET r == search(db, query, ranking, k)
       IN IF r.panicked
          THEN Panic("search", <<>>)
          ELSE /\ last' = [Call("search", <<>>, <<>>, FALSE)
                              EXCEPT !.results = r.results, !.k = k]
               /\ UNCHANGED <<db, alive, dir, maxIssued>>
    /\ UNCHANGED serveVars

\* db.hybrid_search(&query, text, k, sona)
HybridSearch(query, k, ranking, byScore) ==
    /\ alive
    /\ LET r == hybrid_search(db, query, ranking, byScore, k)
       IN IF r.panicked
          THEN Panic("hybrid_search", <<>>)
          ELSE /\ last' = [Call("hybrid_search", <<>>, <<>>, FALSE)
                              EXCEPT !.results = r.results, !.k = k]
               /\ UNCHANGED <<db, alive, dir, maxIssued>>
    /\ UNCHANGED serveVars

\* --------------------------------------------- the store and its directory
Next ==
    \/ \E item \in GoodItems : Insert(item, MaxId)
    \/ \E items \in Batches(GoodItems, MaxId) : InsertBatch(items, MaxId)
    \/ \E id \in 0..(MaxId - 1) : Tombstone(id)
    \/ \E path \in Paths : RemoveByPath(path)
    \/ Compact
    \/ Clear
    \/ Save
    \/ Open

Spec == Init /\ [][Next]_vars

\* ------------------------------------- the store's calls, any vector length
InitApi == InitIn({NoDir})

NextApi ==
    \/ \E item \in Items : Insert(item, MaxId)
    \/ \E items \in Batches(Items, MaxId) : InsertBatch(items, MaxId)
    \/ \E id \in 0..(MaxId - 1) : Tombstone(id)
    \/ \E path \in Paths : RemoveByPath(path)
    \/ Compact
    \/ Clear
    \/ \E query \in Vectors, k \in 0..MaxK, ranking \in Rankings(db.hnsw) :
           Search(query, k, ranking)
    \/ \E query \in Vectors, k \in 0..MaxK, ranking \in Rankings(db.hnsw),
          byScore \in Rankings(db.hnsw) :
           HybridSearch(query, k, ranking, byScore)

SpecApi == InitApi /\ [][NextApi]_vars

\* ------------------------------- searches of a store with soft-deleted ids
SearchItem == [vector |-> GoodVec, metadata |-> IndexMetadata(<<97>>)]

NextSearch ==
    \/ Insert(SearchItem, MaxSearchId)
    \/ \E id \in DOMAIN db.metadata : Tombstone(id)
    \/ \E k \in 0..MaxK, ranking \in Rankings(db.hnsw) :
           Search(GoodVec, k, ranking)

SpecSearch == InitApi /\ [][NextSearch]_vars

\* ------------------------------------- serve mode: the watcher, the server
\* Mutex::lock returns once nobody holds the mutex
CanLock_Always(holder) == TRUE

CanLock(holder) == holder = "none"

\* the change sets a scan can report: no path is in two of the lists
ChangeSets ==
    {c \in [added : SUBSET Paths, modified : SUBSET Paths,
             deleted : SUBSET Paths] :
        /\ c.added \cap c.modified = {}
        /\ c.added \cap c.deleted = {}
        /\ c.modified \cap c.deleted = {}}

is_empty(c) == c.added = {} /\ c.modified = {} /\ c.deleted = {}

RECURSIVE RemovePaths(_, _)
\* remove_vectors_for_path for each path of a set
RemovePaths(d, P) ==
    IF P = {} THEN d
    ELSE LET p == CHOOSE x \in P : TRUE
         IN RemovePaths(remove_by_path(d, p).db, P \ {p})

RECURSIVE InsertEach(_, _)
\* insert called for each item in turn: [db, ids, panicked]
InsertEach(d, items) ==
    IF items = <<>> THEN [db |-> d, ids |-> <<>>, panicked |-> FALSE]
    ELSE LET r == insert(d, Head(items).vector, Head(items).metadata)
         IN IF r.panicked THEN [db |-> d, ids |-> <<>>, panicked |-> TRUE]
            ELSE LET rest == InsertEach(r.db, Tail(items))
                 IN [db |-> rest.db, ids |-> r.ids \o rest.ids,
                     panicked |-> rest.panicked]

RECURSIVE ParsedItems(_, _)
\* the items the files of `order` parse to, entries[p] items for file p
ParsedItems(order, entries) ==
    IF order = <<>> THEN <<>>
    ELSE [i \in 1..entries[Head(order)] |->
             [vector |-> GoodVec, metadata |-> IndexMetadata(Head(order))]]
         \o ParsedItems(Tail(order), entries)

\* Indexer::index_files on the files `order` lists, file p parsing to
\* entries[p] items: the items are embedded, then inserted one by one; the
\* result is the store and the paths reported as indexed (all items fit one
\* embedding batch)
index_files(d, order, entries, embedded) ==
    LET items == ParsedItems(order, entries)
    IN IF items = <<>> \/ ~embedded
       THEN [db |-> d, indexed |-> {}]
       ELSE [db |-> InsertEach(d, items).db,
             indexed |-> {order[i] : i \in {j \in 1..Len(order) :
                                               entries[order[j]] > 0}}]

\* FileManifest::detect_changes comparing the mtime alone
detect_changes_MtimeOnly(m, fs, unreadable) ==
    LET seen == {p \in DOMAIN fs : /\ fs[p].exists
                                   /\ Walked(p)
                                   /\ p \notin unreadable
                                   /\ fs[p].size <= MAX_FILE_SIZE}
    IN [added |-> seen \ DOMAIN m,
        modified |-> {p \in seen \cap DOMAIN m : fs[p].mtime # m[p].mtime},
        deleted |-> (DOMAIN m) \ seen]

\* FileManifest::detect_changes: the walk sees the files that exist and can
\* be read; a tracked path it did not see is reported as deleted
detect_changes(m, fs, unreadable) ==
    LET seen == {p \in DOMAIN fs : /\ fs[p].exists
                                   /\ Walked(p)
                                   /\ p \notin unreadable
                                   /\ fs[p].size <= MAX_FILE_SIZE}
    IN [added |-> seen \ DOMAIN m,
        modified |-> {p \in seen \cap DOMAIN m :
                         fs[p].mtime # m[p].mtime \/ fs[p].size # m[p].size},
        deleted |-> (DOMAIN m) \ seen]

\* FileManifest::apply_indexed: the record takes the file's mtime of now
apply_indexed(m, fs, indexed) ==
    [p \in (DOMAIN m) \cup indexed |->
        IF p \in indexed THEN [mtime |-> fs[p].mtime, size |-> fs[p].size]
        ELSE m[p]]

\* FileManifest::apply_deleted
apply_deleted(m, deleted) == MapDel(m, deleted)

RECURSIVE Total(_, _)
\* the number of items the files of F parse to
Total(e, F) ==
    IF F = {} THEN 0
    ELSE LET p == CHOOSE x \in F : TRUE IN e[p] + Total(e, F \ {p})

\* parse_file gives one item for a file, or none (an empty file, a file
\* that cannot be read): the outcomes for the files to index that fit below
\* the cap
EntryCounts(F, room) == {e \in [F -> {0, 1}] : Total(e, F) <= room}

\* the outcomes over the tree: no item for a file that is not there or is empty
ParsedCounts(F, fs, room) ==
    {e \in EntryCounts(F, room) :
        \A p \in F : e[p] = 1 => fs[p].exists /\ fs[p].size > 0}

\* watcher_loop: the scan; an empty change set goes back to sleep
W_Detect(c) ==
    /\ wpc = "sleep"
    /\ IF is_empty(c)
       THEN UNCHANGED <<wpc, changes>>
       ELSE wpc' = "lock" /\ changes' = c
    /\ UNCHANGED <<lock, boundary, files, manifest>>
    /\ UNCHANGED storeVars
    /\ UNCHANGED restVars

\* indexer.lock().unwrap() for the update: on a poisoned mutex the unwrap
\* panics and the watcher thread ends
W_Lock ==
    /\ wpc = "lock"
    /\ CanLock(lock)
    /\ IF poisoned
       THEN wpc' = "dead" /\ UNCHANGED lock
       ELSE wpc' = "tombstone" /\ lock' = "watcher"
    /\ UNCHANGED <<changes, boundary, files, manifest>>
    /\ UNCHANGED storeVars
    /\ UNCHANGED restVars

\* a step 1 that leaves the deleted files alone
W_Tombstone_ModifiedOnly ==
    /\ wpc = "tombstone"
    /\ db' = RemovePaths(db, changes.modified)
    /\ wpc' = "index"
    /\ UNCHANGED <<alive, dir, last, maxIssued, lock, changes, boundary,
                   files, manifest>>
    /\ UNCHANGED restVars

\* 1. tombstone modified and deleted files
W_Tombstone ==
    /\ wpc = "tombstone"
    /\ db' = RemovePaths(db, changes.modified \cup changes.deleted)
    /\ wpc' = "index"
    /\ UNCHANGED <<alive, dir, last, maxIssued, lock, changes, boundary,
                   files, manifest>>
    /\ UNCHANGED restVars

\* 2. index added and modified files: the files are read, embedded and
\* inserted
W_Index(order, entries, embedded) ==
    /\ wpc = "index"
    /\ LET r == index_files(db, order, entries, embedded)
       IN /\ db' = r.db
          /\ returned' = r.indexed
          /\ built' = [p \in (DOMAIN built) \cup r.indexed |->
                          IF p \in r.indexed
                          THEN [mtime |-> files[p].mtime, size |-> files[p].size]
                          ELSE built[p]]
    /\ maxIssued' = SetMax((DOMAIN db'.metadata) \cup {maxIssued}, maxIssued)
    /\ wpc' = "apply"
    /\ UNCHANGED <<alive, dir, last, lock, changes, boundary, files, manifest,
                   slock>>
    /\ UNCHANGED idleVars

\* the manifest takes what index_files returned, 3. and loses the deleted
\* files
W_Apply ==
    /\ wpc = "apply"
    /\ manifest' = apply_deleted(apply_indexed(manifest, files, returned),
                                 changes.deleted)
    /\ returned' = {}
    /\ wpc' = "compact"
    /\ UNCHANGED <<lock, changes, boundary, files, built, slock>>
    /\ UNCHANGED storeVars
    /\ UNCHANGED idleVars

\* 4. compact if the tombstone ratio is high
W_Compact ==
    /\ wpc = "compact"
    /\ db' = IF tombstone_ratio_over(db, COMPACT_THRESHOLD)
             THEN compact(db) ELSE db
    /\ wpc' = "save"
    /\ UNCHANGED <<alive, dir, last, maxIssued, lock, changes, boundary,
                   files, manifest>>
    /\ UNCHANGED restVars

\* 5. save to disk
W_Save ==
    /\ wpc = "save"
    /\ dir' = save(db, dir)
    /\ wpc' = "status_lock"
    /\ UNCHANGED <<db, alive, last, maxIssued, lock, changes, boundary,
                   files, manifest>>
    /\ UNCHANGED restVars

\* 6. update the status: status.lock().unwrap(), with the indexer's guard
\* still held
W_Status ==
    /\ wpc = "status_lock"
    /\ slock = "none"
    /\ slock' = "watcher"
    /\ wpc' = "status"
    /\ UNCHANGED <<lock, changes, boundary, files, manifest, returned, built>>
    /\ UNCHANGED storeVars
    /\ UNCHANGED idleVars

\* the status guard is dropped at the end of its block, the indexer's guard
\* at the end of the loop body
W_Unlock ==
    /\ wpc = "status"
    /\ slock' = "none"
    /\ lock' = "none"
    /\ wpc' = "sleep"
    /\ changes' = NoChanges
    /\ boundary' = db
    /\ UNCHANGED <<files, manifest, returned, built>>
    /\ UNCHANGED storeVars
    /\ UNCHANGED idleVars

\* ---- the text of a response: a sequence of pieces, a piece being a run of
\* characters that are neither a line feed nor a double quote, or one of these
LineFeed == "<LF>"
Quote == "<QUOTE>"

\* format!(r#"{{"ok":false,"error":"<msg>{}"}}"#, raw): `raw` goes in as it is
ErrorText(msg, raw) == <<"{ok:false,error:", Quote, msg>> \o raw \o <<Quote, "}">>

\* format!(r#"{{"ok":true,"data":{}}}"#, json), json written by serde_json
DataText(json) == <<"{ok:true,data:", json, "}">>

RECURSIVE SplitLines(_)
\* what writeln! puts on stdout, line by line
SplitLines(text) ==
    IF \A i \in 1..Len(text) : text[i] # LineFeed THEN <<text>>
    ELSE LET i == CHOOSE j \in 1..Len(text) :
                      /\ text[j] = LineFeed
                      /\ \A h \in 1..(j - 1) : text[h] # LineFeed
         IN <<SubSeq(text, 1, i - 1)>> \o SplitLines(SubSeq(text, i + 1, Len(text)))

\* the response to a request whose handler panicked
CaughtText == ErrorText("Internal panic caught", <<>>)

\* the request handler panicked: catch_unwind turns it into a response
Caught(op) ==
    /\ last' = Call(op, <<>>, <<>>, TRUE)
    /\ resp' = SplitLines(CaughtText)

\* VectorDB::hybrid_search for a limit k with k * 3 = 2^64 + 2, in a build
\* where the product wraps: 2 candidates plus the tombstone headroom
hybrid_search_wrapped(d, ranking, byScore) ==
    LET candidates == 2 + Cardinality(d.tombstones)
        results == hnsw_search(ranking, candidates)
        NotTombstoned(id) == id \notin d.tombstones
        HasMeta(id) == id \in DOMAIN d.metadata
        found == SelectSeq(SelectSeq(results, NotTombstoned), HasMeta)
        Scored(id) == \E i \in 1..Len(found) : found[i] = id
        scored == SelectSeq(byScore, Scored)
    IN [results |-> [i \in 1..Len(scored) |-> SearchResult(d, scored[i])],
        panicked |-> FALSE]

\* handle_serve_request, "search": Indexer::search under the mutex
S_Search(k, ranking, byScore) ==
    /\ serving
    /\ CanLock(lock)
    /\ IF poisoned
       THEN Caught("serve_search")
       ELSE /\ LET r == hybrid_search(db, GoodVec, ranking, byScore, k)
               IN last' = [Call("serve_search", <<>>, <<>>, FALSE)
                              EXCEPT !.results = r.results, !.k = k]
            /\ resp' = SplitLines(DataText("results"))
    /\ UNCHANGED <<db, alive, dir, maxIssued>>
    /\ UNCHANGED <<auxVars, cycleVars, wpc, lock, changes, boundary, files, manifest, sona, sig,
                   sonaFile, serving, poisoned>>

\* "search" with a limit whose triple overflows usize: a panic under the
\* mutex in a build with overflow checks, a wrapped candidate count without
S_SearchOverflow(checked, ranking, byScore) ==
    /\ serving
    /\ CanLock(lock)
    /\ IF poisoned \/ checked
       THEN Caught("serve_search_overflow")
       ELSE /\ LET r == hybrid_search_wrapped(db, ranking, byScore)
               IN last' = [Call("serve_search_overflow", <<>>, <<>>, FALSE)
                              EXCEPT !.results = r.results]
            /\ resp' = SplitLines(DataText("results"))
    /\ poisoned' = (poisoned \/ checked)
    /\ UNCHANGED <<db, alive, dir, maxIssued>>
    /\ UNCHANGED <<auxVars, cycleVars, wpc, lock, changes, boundary, files, manifest, sona, sig,
                   sonaFile, serving>>

\* a request that changes nothing but the response
Answer(op, text) ==
    /\ serving
    /\ last' = Call(op, <<>>, <<>>, FALSE)
    /\ resp' = SplitLines(text)
    /\ UNCHANGED <<db, alive, dir, maxIssued>>
    /\ UNCHANGED <<auxVars, cycleVars, wpc, lock, changes, boundary, files, manifest, sona, sig,
                   sonaFile, serving, poisoned>>

\* a request that takes the indexer mutex and changes nothing
AnswerLocked(op, text) ==
    /\ CanLock(lock)
    /\ Answer(op, IF poisoned THEN CaughtText ELSE text)

\* "search" without a query
S_MissingQuery == Answer("serve_missing_query", ErrorText("Missing 'query' field", <<>>))

\* "search" whose embedding fails: the error's text goes into the response
S_SearchError == AnswerLocked("serve_search_error", ErrorText("Search error: ", <<"error">>))

\* handle_serve_request, "stats": Indexer::stats under the mutex
S_Stats ==
    /\ serving
    /\ CanLock(lock)
    /\ IF poisoned
       THEN Caught("serve_stats")
       ELSE /\ last' = [Call("serve_stats", <<>>, <<>>, FALSE)
                           EXCEPT !.count = len(db)]
            /\ resp' = SplitLines(DataText("vectors"))
    /\ UNCHANGED <<db, alive, dir, maxIssued>>
    /\ UNCHANGED <<auxVars, cycleVars, wpc, lock, changes, boundary, files, manifest, sona, sig,
                   sonaFile, serving, poisoned>>

\* "watcher_status": under the status mutex
S_WatcherStatus == Answer("serve_watcher_status", DataText("status"))

\* "feedback" without signals
S_NoSignals == Answer("serve_no_signals", DataText("learned"))

\* "sona_status"
S_SonaStatus == AnswerLocked("serve_sona_status", DataText("patterns"))

\* the commands that are not known: their names as the JSON string decodes
UnknownCommands == {<<>>, <<"reindex">>, <<"a", Quote, "b">>, <<"a", LineFeed, "b">>}

\* any other command: its name goes into the response
S_Unknown(command) == Answer("serve_unknown", ErrorText("Unknown command: ", command))

\* a line that is not JSON: the parser's message goes into the response
S_InvalidJson == Answer("serve_invalid_json", ErrorText("Invalid JSON: ", <<"error">>))

\* a line of white space is skipped
S_EmptyLine ==
    /\ serving
    /\ last' = Call("serve_empty_line", <<>>, <<>>, FALSE)
    /\ resp' = <<>>
    /\ UNCHANGED <<db, alive, dir, maxIssued>>
    /\ UNCHANGED <<auxVars, cycleVars, wpc, lock, changes, boundary, files, manifest, sona, sig,
                   sonaFile, serving, poisoned>>

\* a line that stdin.lock().lines() cannot return (bytes that are not UTF-8,
\* a read error): the loop breaks and run_serve returns
S_ReadError ==
    /\ serving
    /\ serving' = FALSE
    /\ last' = Call("serve_read_error", <<>>, <<>>, FALSE)
    /\ resp' = <<>>
    /\ UNCHANGED <<db, alive, dir, maxIssued>>
    /\ UNCHANGED <<auxVars, cycleVars, wpc, lock, changes, boundary, files, manifest, sona, sig,
                   sonaFile, poisoned>>

\* the cycle's files to index: added, then modified
FilesToIndex == changes.added \cup changes.modified

NextServe ==
    \/ \E c \in ChangeSets : W_Detect(c)
    \/ W_Lock
    \/ W_Tombstone
    \/ \E order \in Rankings(FilesToIndex),
          entries \in EntryCounts(FilesToIndex, MaxId - db.next_id),
          embedded \in BOOLEAN : W_Index(order, entries, embedded)
    \/ W_Apply
    \/ W_Compact
    \/ W_Save
    \/ W_Status
    \/ W_Unlock
    \/ \E k \in 0..MaxK, ranking \in Rankings(db.hnsw),
          byScore \in Rankings(db.hnsw) : S_Search(k, ranking, byScore)
    \/ \E checked \in BOOLEAN, ranking \in Rankings(db.hnsw),
          byScore \in Rankings(db.hnsw) :
           S_SearchOverflow(checked, ranking, byScore)
    \/ S_SearchError
    \/ S_Stats

SpecServe == InitApi /\ [][NextServe]_vars

\* ------------------------------------- serve mode: the watcher over a tree
\* The tree changes while the watcher sleeps, is about to index or is about
\* to record what it indexed: the steps in between (lock, tombstone, compact,
\* save, status) do not read the tree, so a change during one of them is a
\* change before the next step that does.
FsTurn == wpc \in {"sleep", "index", "apply"}

\* a file is created or written: its mtime changes
FsWrite(p, f) ==
    /\ FsTurn
    /\ files[p] # f
    /\ files' = [files EXCEPT ![p] = f]
    /\ UNCHANGED <<wpc, lock, changes, boundary, manifest>>
    /\ UNCHANGED storeVars
    /\ UNCHANGED restVars

\* a file is deleted
FsRemove(p) ==
    /\ FsTurn
    /\ files[p].exists
    /\ files' = [files EXCEPT ![p] = NoFile]
    /\ UNCHANGED <<wpc, lock, changes, boundary, manifest>>
    /\ UNCHANGED storeVars
    /\ UNCHANGED restVars

NextWatch ==
    \/ \E p \in Paths, m \in Mtimes : FsWrite(p, FileAt(m, 1))
    \/ \E p \in Paths : FsRemove(p)
    \/ \E unreadable \in SUBSET {p \in Paths : files[p].exists} :
           W_Detect(detect_changes(manifest, files, unreadable))
    \/ W_Lock
    \/ W_Tombstone
    \/ \E order \in Rankings(FilesToIndex),
          entries \in ParsedCounts(FilesToIndex, files, MaxWatchId - db.next_id),
          embedded \in BOOLEAN : W_Index(order, entries, embedded)
    \/ W_Apply
    \/ W_Compact
    \/ W_Save
    \/ W_Status
    \/ W_Unlock

SpecWatch == InitApi /\ [][NextWatch]_vars

\* ------------------------------------------------------- feedback signals
\* engine.learn(&signal), while fewer than `cap` signals have been learned
Learn(signal, cap) ==
    /\ sona.learned.global_count < cap
    /\ sona' = learn(sona, signal)
    /\ sig' = signal
    /\ last' = Call("learn", <<>>, <<>>, FALSE)
    /\ UNCHANGED <<auxVars, cycleVars, db, alive, dir, maxIssued, wpc, lock, changes, boundary,
                   files, manifest, sonaFile, resp, serving, poisoned>>

\* engine.learn_with_embeddings(&signal, query_emb, target_emb)
LearnWithEmbeddings(signal, query_emb, target_emb, cap) ==
    /\ sona.learned.global_count < cap
    /\ sona.lora.update_count < cap
    /\ sona' = learn_with_embeddings(sona, signal, query_emb, target_emb)
    /\ sig' = signal
    /\ last' = Call("learn_with_embeddings", <<>>, <<>>, FALSE)
    /\ UNCHANGED <<auxVars, cycleVars, db, alive, dir, maxIssued, wpc, lock, changes, boundary,
                   files, manifest, sonaFile, resp, serving, poisoned>>

\* handle_serve_request, "feedback", with one signal: the query is embedded
\* again (`embedded`: with success) and is its own target; the engine is
\* saved
S_Feedback(signal, embedded, cap) ==
    /\ serving
    /\ CanLock(lock)
    /\ sona.learned.global_count < cap
    /\ sona.lora.update_count < cap
    /\ IF poisoned
       THEN Caught("serve_feedback") /\ UNCHANGED <<sona, sonaFile>>
       ELSE /\ LET query == IF QueryOf(signal) = NoQuery THEN <<>>
                            ELSE QueryOf(signal)
                   query_emb == IF query # <<>> /\ embedded THEN {GoodVec}
                                ELSE {}
               IN sona' = IF query_emb # {}
                          THEN learn_with_embeddings(sona, signal, query_emb,
                                                     query_emb)
                          ELSE learn(sona, signal)
            /\ sonaFile' = SavedSona(sona')
            /\ last' = [Call("serve_feedback", <<>>, <<>>, FALSE)
                           EXCEPT !.count = 1]
            /\ resp' = SplitLines(DataText("learned"))
    /\ sig' = signal
    /\ UNCHANGED <<auxVars, cycleVars, db, alive, dir, maxIssued, wpc, lock, changes, boundary,
                   files, manifest, serving, poisoned>>

NextSona ==
    \/ \E signal \in Signals : Learn(signal, MaxSignals)
    \/ \E signal \in Signals, e \in EmbeddingPairs :
           LearnWithEmbeddings(signal, e[1], e[2], MaxSignals)

SpecSona == InitApi /\ [][NextSona]_vars

\* the engine behind the server's feedback command
NextFeedback ==
    \E signal \in Signals, embedded \in BOOLEAN :
        S_Feedback(signal, embedded, MaxSignals)

SpecFeedback == InitApi /\ [][NextFeedback]_vars

\* --------------------------------------- the watcher over a tree of directories
\* the components of an exclusion entry, split at the separator
Components(entry) ==
    CASE entry = "vendor/bin" -> <<"vendor", "bin">>
      [] entry = "pub/static" -> <<"pub", "static">>
      [] entry = "dev/tests" -> <<"dev", "tests">>
      [] entry = "dev/tools" -> <<"dev", "tools">>
      [] OTHER -> <<entry>>

\* one file at the root, and one file in the directory of each entry
TreePaths ==
    {<<"a.php">>}
        \cup {Components(EXCLUDE_DIRS[i]) \o <<"x.php">> : i \in 1..Len(EXCLUDE_DIRS)}

EmptyTree == [p \in TreePaths |-> NoFile]

\* the tree at start: no file, or one file
Trees ==
    {EmptyTree}
        \cup {[EmptyTree EXCEPT ![p] = FileAt(m, 1)] : p \in TreePaths, m \in Mtimes}

\* a file is written in a tree of at most MaxTreeFiles files
TreeWrite(p, m) ==
    /\ Cardinality({q \in TreePaths : files[q].exists} \cup {p}) <= MaxTreeFiles
    /\ FsWrite(p, FileAt(m, 1))

NextDiscover ==
    \/ \E p \in TreePaths, m \in Mtimes : TreeWrite(p, m)
    \/ \E p \in TreePaths : FsRemove(p)
    \/ W_Detect(detect_changes(manifest, files, {}))
    \/ W_Lock
    \/ W_Tombstone
    \/ \E order \in Rankings(FilesToIndex),
          entries \in ParsedCounts(FilesToIndex, files, MaxId - db.next_id),
          embedded \in BOOLEAN : W_Index(order, entries, embedded)
    \/ W_Apply
    \/ W_Compact
    \/ W_Save
    \/ W_Status
    \/ W_Unlock

SpecDiscover == InitOver({NoDir}, {NoSonaFile}, Trees) /\ [][NextDiscover]_vars

\* ------------------------------- serve mode: the process starts again
\* the process ends, wherever its threads are, and run_serve starts again:
\* Indexer::new loads the store and the engine from disk, the mutexes are
\* new, the watcher thread is spawned and has no manifest yet
Restart ==
    /\ LET r == open(dir)
       IN /\ db' = r.db
          /\ dir' = r.dir
          /\ boundary' = r.db
          /\ maxIssued' = SetMax((DOMAIN r.db.metadata) \cup {maxIssued},
                                 maxIssued)
    /\ alive' = TRUE
    /\ LET e == sona_open(sonaFile)
       IN sona' = IF e.ok THEN e.engine ELSE NewSona
    /\ last' = Call("indexer_new", <<>>, <<>>, FALSE)
    /\ wpc' = "start"
    /\ lock' = "none"
    /\ slock' = "none"
    /\ spc' = Idle
    /\ poisoned' = FALSE
    /\ serving' = TRUE
    /\ resp' = <<>>
    /\ changes' = NoChanges
    /\ returned' = {}
    /\ manifest' = EmptyMap
    /\ UNCHANGED <<files, sig, sonaFile, fetch, probe, built>>

\* watcher_loop, before its loop: the initial manifest is built from the
\* tree in a block that holds the indexer mutex
W_InitManifest ==
    /\ wpc = "start"
    /\ CanLock(lock)
    /\ IF poisoned
       THEN wpc' = "dead" /\ UNCHANGED manifest
       ELSE wpc' = "start_status" /\ manifest' = from_existing_index(files)
    /\ UNCHANGED <<lock, changes, boundary, files>>
    /\ UNCHANGED storeVars
    /\ UNCHANGED restVars

\* watcher_loop, before its loop: tracked_files is set in a block that holds
\* the status mutex
W_InitStatus ==
    /\ wpc = "start_status"
    /\ slock = "none"
    /\ wpc' = "sleep"
    /\ UNCHANGED <<lock, changes, boundary, files, manifest>>
    /\ UNCHANGED storeVars
    /\ UNCHANGED restVars

NextRestart ==
    \/ \E p \in Paths, m \in Mtimes : FsWrite(p, FileAt(m, 1))
    \/ \E p \in Paths : FsRemove(p)
    \/ Restart
    \/ W_InitManifest
    \/ W_InitStatus
    \/ W_Detect(detect_changes(manifest, files, {}))
    \/ W_Lock
    \/ W_Tombstone
    \/ \E order \in Rankings(FilesToIndex),
          entries \in ParsedCounts(FilesToIndex, files, MaxId - db.next_id),
          embedded \in BOOLEAN : W_Index(order, entries, embedded)
    \/ W_Apply
    \/ W_Compact
    \/ W_Save
    \/ W_Status
    \/ W_Unlock

SpecRestart == InitApi /\ [][NextRestart]_vars

\* ------------------------------------- serve mode: the two mutexes
\* handle_serve_request: the mutexes the handler of a command locks, in the
\* order in which it locks them
LockPlan_StatusThenIndexer(command) ==
    CASE command \in {"search", "stats", "feedback", "sona_status"} -> <<"indexer">>
      [] command = "watcher_status" -> <<"status", "indexer">>
      [] OTHER -> <<>>

LockPlan(command) ==
    CASE command \in {"search", "stats", "feedback", "sona_status"} -> <<"indexer">>
      [] command = "watcher_status" -> <<"status">>
      [] OTHER -> <<>>

Commands == {"search", "stats", "feedback", "sona_status", "watcher_status"}

\* the server thread reads a request and enters the handler of its command
S_Request(command) ==
    /\ serving
    /\ spc = Idle
    /\ LockPlan(command) # <<>>
    /\ spc' = [held |-> <<>>, todo |-> LockPlan(command)]
    /\ UNCHANGED <<db, alive, dir, last, maxIssued, wpc, lock, changes,
                   boundary, files, manifest, sona, sig, sonaFile, resp,
                   serving, poisoned, fetch, probe>>
    /\ UNCHANGED cycleVars

\* the handler's lock().unwrap(): it returns once nobody holds the mutex; on
\* a poisoned indexer mutex the unwrap panics, the panic is caught and the
\* request ends
S_Lock ==
    /\ spc.todo # <<>>
    /\ IF Head(spc.todo) = "indexer"
       THEN /\ CanLock(lock)
            /\ IF poisoned
               THEN /\ spc' = Idle
                    /\ slock' = "none"
                    /\ UNCHANGED lock
               ELSE /\ lock' = "server"
                    /\ spc' = [held |-> Append(spc.held, "indexer"),
                               todo |-> Tail(spc.todo)]
                    /\ UNCHANGED slock
       ELSE /\ CanLock(slock)
            /\ slock' = "server"
            /\ spc' = [held |-> Append(spc.held, "status"),
                       todo |-> Tail(spc.todo)]
            /\ UNCHANGED lock
    /\ UNCHANGED <<db, alive, dir, last, maxIssued, wpc, changes, boundary,
                   files, manifest, sona, sig, sonaFile, resp, serving,
                   poisoned, fetch, probe, returned, built>>

\* the handler returns, or panics while it holds the indexer mutex: its
\* guards are dropped
S_Unlock(panicked) ==
    /\ spc.todo = <<>>
    /\ spc.held # <<>>
    /\ panicked => spc.held = <<"indexer">>
    /\ lock' = IF lock = "server" THEN "none" ELSE lock
    /\ slock' = IF slock = "server" THEN "none" ELSE slock
    /\ poisoned' = (poisoned \/ panicked)
    /\ spc' = Idle
    /\ UNCHANGED <<db, alive, dir, last, maxIssued, wpc, changes, boundary,
                   files, manifest, sona, sig, sonaFile, resp, serving,
                   fetch, probe, returned, built>>

\* the scans of a tree in which one file may appear
LockChanges == {NoChanges, [NoChanges EXCEPT !.added = {<<97>>}]}

\* the watcher thread has just been spawned
InitStart ==
    /\ InitProcess({NoDir}, {NoSonaFile}, {NoFiles})
    /\ wpc = "start"
    /\ manifest = EmptyMap
    /\ fetch = NoFetch
    /\ probe = NoProbe

WatcherIndexes ==
    \E order \in Rankings(FilesToIndex),
       entries \in EntryCounts(FilesToIndex, MaxId - db.next_id),
       embedded \in BOOLEAN : W_Index(order, entries, embedded)

NextLocks ==
    \/ \E command \in Commands : S_Request(command)
    \/ S_Lock
    \/ \E panicked \in BOOLEAN : S_Unlock(panicked)
    \/ W_InitManifest
    \/ W_InitStatus
    \/ \E c \in LockChanges : W_Detect(c)
    \/ W_Lock
    \/ W_Tombstone
    \/ WatcherIndexes
    \/ W_Apply
    \/ W_Compact
    \/ W_Save
    \/ W_Status
    \/ W_Unlock

SpecLocks == InitStart /\ [][NextLocks]_vars

\* Every step of a thread that holds a mutex or has been handed one is
\* taken: a critical section ends. A lock() that can return again and again
\* does return: the thread that waits is not passed over for ever. Nothing
\* is assumed of the requests, which may stop coming, and of the scans.
SpecLocksFair ==
    /\ SpecLocks
    /\ SF_vars(S_Lock)
    /\ WF_vars(\E panicked \in BOOLEAN : S_Unlock(panicked))
    /\ SF_vars(W_InitManifest)
    /\ SF_vars(W_InitStatus)
    /\ SF_vars(W_Lock)
    /\ WF_vars(W_Tombstone)
    /\ WF_vars(WatcherIndexes)
    /\ WF_vars(W_Apply)
    /\ WF_vars(W_Compact)
    /\ WF_vars(W_Save)
    /\ SF_vars(W_Status)
    /\ WF_vars(W_Unlock)

\* ------------------------------------- serve mode: the end of a cycle
\* a tree of n files, each indexed once
StoredPaths(n) == {<<96 + i>> : i \in 1..n}

RECURSIVE StoreOf(_)
\* the store after the files of StoredPaths(n) were inserted, one item each
StoreOf(n) ==
    IF n = 0 THEN NewDB
    ELSE insert(StoreOf(n - 1), GoodVec, IndexMetadata(<<96 + n>>)).db

\* the watcher sleeps after the cycles that indexed the n files of a tree
Tracking(n) ==
    /\ db = StoreOf(n)
    /\ alive = TRUE
    /\ dir = NoDir
    /\ last = Call("new", <<>>, <<>>, FALSE)
    /\ maxIssued = n - 1
    /\ wpc = "sleep"
    /\ lock = "none"
    /\ changes = NoChanges
    /\ boundary = StoreOf(n)
    /\ files = [p \in StoredPaths(n) |-> FileAt(1, 1)]
    /\ manifest = [p \in StoredPaths(n) |-> [mtime |-> 1, size |-> 1]]
    /\ sona = NewSona
    /\ sig = NoSignal
    /\ sonaFile = NoSonaFile
    /\ resp = <<>>
    /\ serving = TRUE
    /\ poisoned = FALSE
    /\ fetch = NoFetch
    /\ probe = NoProbe
    /\ returned = {}
    /\ built = [p \in StoredPaths(n) |-> [mtime |-> 1, size |-> 1]]
    /\ slock = "none"
    /\ spc = Idle

\* files of the tree are deleted, and the watcher runs its cycles
NextDelete ==
    \/ \E p \in DOMAIN files : FsRemove(p)
    \/ W_Detect(detect_changes(manifest, files, {}))
    \/ W_Lock
    \/ W_Tombstone
    \/ \E order \in Rankings(FilesToIndex),
          entries \in ParsedCounts(FilesToIndex, files, 0),
          embedded \in BOOLEAN : W_Index(order, entries, embedded)
    \/ W_Apply
    \/ W_Compact
    \/ W_Save
    \/ W_Status
    \/ W_Unlock

SpecDelete ==
    /\ \E n \in 0..MaxStored : Tracking(n)
    /\ [][NextDelete]_vars

\* ------------------------------------------------------ network fetches
\* the statuses a server answers with
Statuses == {200, 400, 404, 429, 500, 503}
\* StatusCode::is_success, StatusCode::is_server_error
is_success(status) == status >= 200 /\ status < 300
is_server_error(status) == status >= 500 /\ status < 600

\* 1 << retries
RECURSIVE Shl1(_)
Shl1(n) == IF n = 0 THEN 1 ELSE 2 * Shl1(n - 1)

\* a fetch that has not sent anything yet
StartFetch(op, url) ==
    [op |-> op, pc |-> "send", url |-> url, log |-> <<>>, waits |-> <<>>,
     retries |-> 0, outcome |-> "pending"]

FetchUnchanged ==
    /\ UNCHANGED <<db, alive, dir, last, maxIssued, wpc, lock, changes,
                   boundary, files, manifest, sona, sig, sonaFile, resp,
                   serving, poisoned, probe, spc>>
    /\ UNCHANGED cycleVars

\* generate_description, one turn of its loop: the request is sent and the
\* status answered; a body that does not parse is an error
D_Send(status, parses) ==
    /\ fetch.op = "generate_description"
    /\ fetch.pc = "send"
    /\ LET should_retry == status = 429 \/ is_server_error(status)
           f == [fetch EXCEPT !.log = Append(@, status)]
       IN fetch' =
           IF is_success(status)
           THEN [f EXCEPT !.pc = "done",
                          !.outcome = IF parses THEN "ok" ELSE "error"]
           ELSE IF should_retry /\ fetch.retries < MAX_RETRIES
           THEN [f EXCEPT !.retries = @ + 1,
                          !.waits = Append(@, Shl1(fetch.retries + 1))]
           ELSE [f EXCEPT !.pc = "done", !.outcome = "error"]
    /\ FetchUnchanged

\* generate_description: the request cannot be sent
D_SendFails ==
    /\ fetch.op = "generate_description"
    /\ fetch.pc = "send"
    /\ fetch' = [fetch EXCEPT !.pc = "done", !.outcome = "error"]
    /\ FetchUnchanged

\* Embedder::download_model: reqwest::blocking::get(url)?.bytes()? and the
\* bytes written to the file, whatever the status; the tokenizer comes after
\* the model
M_Get(status) ==
    /\ fetch.op = "download_model"
    /\ fetch.pc = "send"
    /\ LET f == [fetch EXCEPT !.log = Append(@, status), !.outcome = "ok"]
       IN fetch' = IF fetch.url = "model"
                   THEN [f EXCEPT !.pc = "next"]
                   ELSE [f EXCEPT !.pc = "done"]
    /\ FetchUnchanged

\* download_model goes on to the tokenizer
M_Next ==
    /\ fetch.op = "download_model"
    /\ fetch.pc = "next"
    /\ fetch' = StartFetch("download_model", "tokenizer")
    /\ FetchUnchanged

\* download_model: the connection fails
M_GetFails ==
    /\ fetch.op = "download_model"
    /\ fetch.pc = "send"
    /\ fetch' = [fetch EXCEPT !.pc = "done", !.outcome = "error"]
    /\ FetchUnchanged

NextFetch ==
    \/ \E status \in Statuses, parses \in BOOLEAN : D_Send(status, parses)
    \/ D_SendFails
    \/ \E status \in Statuses : M_Get(status)
    \/ M_Next
    \/ M_GetFails

SpecFetch ==
    /\ InitBase({NoDir}, {NoSonaFile}, {NoFiles})
    /\ probe = NoProbe
    /\ fetch \in {StartFetch("generate_description", "api"),
                   StartFetch("download_model", "model")}
    /\ [][NextFetch]_vars

\* ---------------------------------- the functions of the indexer, called
ProbeUnchanged ==
    /\ UNCHANGED <<db, alive, dir, last, maxIssued, wpc, lock, changes,
                   boundary, files, manifest, sona, sig, sonaFile, resp,
                   serving, poisoned, fetch, spc>>
    /\ UNCHANGED cycleVars

\* a fresh process with nothing under way but the call to make
InitProbe(inputs) ==
    /\ InitBase({NoDir}, {NoSonaFile}, {NoFiles})
    /\ fetch = NoFetch
    /\ probe \in inputs

\* the terms of a query, one of them shorter than 3 characters
QueryTerms == {"cart", "totals", "plugin", "to"}
LongTerms == QueryTerms \ ShortTerms

\* the queries of at most MaxTerms terms
TermQueries == UNION {[1..n -> QueryTerms] : n \in 0..MaxTerms}

\* the candidates: what their fields contain
Candidates24 ==
    [path : SUBSET LongTerms,
     search_text : SUBSET LongTerms,
     class_name : {NoField, {"cart"}, {"cart", "totals"}},
     magento_type : {NoField, {"plugin"}},
     in_plugin_dir : {FALSE},
     is_plugin : BOOLEAN]

\* the scoring of one candidate of hybrid_search
P_KeywordBonus ==
    /\ probe.op = "score"
    /\ probe' = [op |-> "keyword_bonus", query_terms |-> probe.query_terms,
                 meta |-> probe.meta,
                 out |-> keyword_bonus(probe.meta, probe.query_terms)]
    /\ ProbeUnchanged

NextBonus == P_KeywordBonus

SpecBonus ==
    /\ InitProbe({[op |-> "score", query_terms |-> q, meta |-> c] :
                     q \in TermQueries, c \in Candidates24})
    /\ [][NextBonus]_vars

\* the relative paths of the files to parse
RolePaths ==
    {<<"app", "code", "Acme", "Cart", d, "Index.php">> :
         d \in {"Controller", "controller", "Plugin", "Observer", "Block",
                "Helper"}}
        \cup {<<"Controller", "Index.php">>, <<"app", "Controller">>,
              <<"app", "Model", "CartRepository.php">>,
              <<"app", "Plugin", "Observer", "Index.php">>}

\* what the PHP analyzer reports for a file, if it runs
PhpAsts ==
    {NoAst} \cup [analyzed : {TRUE}, is_controller : BOOLEAN,
                  is_repository : BOOLEAN, is_plugin : BOOLEAN,
                  is_observer : BOOLEAN, is_model : BOOLEAN,
                  is_block : BOOLEAN]

\* parse_file builds the metadata of one file
P_BuildMetadata ==
    /\ probe.op = "parse"
    /\ probe' = [op |-> "build_metadata", path |-> probe.path,
                 php_ast |-> probe.php_ast,
                 out |-> build_metadata(probe.path, probe.php_ast)]
    /\ ProbeUnchanged

NextRoles == P_BuildMetadata

SpecRoles ==
    /\ InitProbe({[op |-> "parse", path |-> p, php_ast |-> a] :
                     p \in RolePaths, a \in PhpAsts})
    /\ [][NextRoles]_vars

\* ------------------------------------------------- the scan of a tree

\* the sizes a file can have, one of them above MAX_FILE_SIZE
Sizes == {1, 2, MAX_FILE_SIZE + 1}

\* the trees over Paths
ScanTrees ==
    [Paths -> {NoFile} \cup {FileAt(m, z) : m \in Mtimes, z \in Sizes}]

\* the manifests over Paths
Manifests ==
    UNION {[T -> {[mtime |-> m, size |-> z] : m \in Mtimes, z \in Sizes}] :
              T \in SUBSET Paths}

\* manifest.detect_changes(root), the metadata of some files not readable
P_DetectChanges(unreadable) ==
    /\ probe.op = "none"
    /\ probe' = [op |-> "detect_changes", unreadable |-> unreadable,
                 out |-> detect_changes(manifest, files, unreadable)]
    /\ ProbeUnchanged

NextScan ==
    \E unreadable \in SUBSET {p \in Paths : files[p].exists} :
        P_DetectChanges(unreadable)

SpecScan ==
    /\ db = NewDB
    /\ alive = TRUE
    /\ dir = NoDir
    /\ last = Call("new", <<>>, <<>>, FALSE)
    /\ maxIssued = -1
    /\ wpc = "sleep"
    /\ lock = "none"
    /\ changes = NoChanges
    /\ boundary = NewDB
    /\ files \in ScanTrees
    /\ manifest \in Manifests
    /\ sona = NewSona
    /\ sig = NoSignal
    /\ sonaFile = NoSonaFile
    /\ resp = <<>>
    /\ serving = TRUE
    /\ poisoned = FALSE
    /\ fetch = NoFetch
    /\ probe = NoProbe
    /\ returned = {}
    /\ built = EmptyMap
    /\ slock = "none"
    /\ spc = Idle
    /\ [][NextScan]_vars

\* ------------------------------------------------- the start of a process
\* the SONA file as the program may find it at start
StartSonaFiles ==
    {NoSonaFile, EmptySona, BrokenSona(TRUE), BrokenSona(FALSE)}
        \cup {SavedSona(learn(NewSona, sg)) : sg \in Signals}
        \cup {LegacySona(learn(NewSona, sg)) : sg \in Signals}

\* Indexer::new: the store from VectorDB::open, the engine from
\* SonaEngine::open(..).ok(), or a new engine when that is None
IndexerNew ==
    /\ LET r == open(dir)
       IN /\ db' = r.db
          /\ dir' = r.dir
          /\ maxIssued' = SetMax((DOMAIN r.db.metadata) \cup {maxIssued},
                                 maxIssued)
    /\ alive' = TRUE
    /\ LET e == sona_open(sonaFile)
       IN sona' = IF e.ok THEN e.engine ELSE NewSona
    /\ last' = Call("indexer_new", <<>>, <<>>, FALSE)
    /\ UNCHANGED <<auxVars, cycleVars, wpc, lock, changes, boundary, files, manifest, sig,
                   sonaFile, resp, serving, poisoned>>

NextStart ==
    \/ IndexerNew
    \/ \E signal \in Signals, embedded \in BOOLEAN :
           S_Feedback(signal, embedded, MaxLoopSignals)

SpecStart == InitWith(InitDirs, StartSonaFiles) /\ [][NextStart]_vars

\* ------------------------------------------- serve mode: the request loop
\* run_serve's loop over the lines of stdin, on an empty index
NextLoop ==
    \/ S_EmptyLine
    \/ S_ReadError
    \/ S_InvalidJson
    \/ S_MissingQuery
    \/ \E k \in 0..MaxK, ranking \in Rankings(db.hnsw),
          byScore \in Rankings(db.hnsw) : S_Search(k, ranking, byScore)
    \/ \E checked \in BOOLEAN, ranking \in Rankings(db.hnsw),
          byScore \in Rankings(db.hnsw) :
           S_SearchOverflow(checked, ranking, byScore)
    \/ S_SearchError
    \/ S_Stats
    \/ S_WatcherStatus
    \/ S_NoSignals
    \/ \E signal \in Signals, embedded \in BOOLEAN :
           S_Feedback(signal, embedded, MaxLoopSignals)
    \/ S_SonaStatus
    \/ \E command \in UnknownCommands : S_Unknown(command)

SpecLoop == InitApi /\ [][NextLoop]_vars

\* one signal, learned again and again
NextRepeat ==
    \E signal \in Signals :
        /\ signal.kind \in RecognizedKinds
        /\ sig \in {NoSignal, signal}
        /\ Learn(signal, MaxRepeat)

SpecRepeat == InitApi /\ [][NextRepeat]_vars

\* ------------------------------------------------------------- properties
InsertOps == {"insert", "insert_batch"}

\* the ids the step assigns
NewIds == IF last'.op \in InsertOps THEN SeqSet(last'.ids) ELSE {}

\* every id a store holds, in a map or in the graph
StoredIds(d) == (DOMAIN d.metadata) \cup (DOMAIN d.vectors) \cup d.hnsw

Increasing(ids) == \A i, j \in 1..Len(ids) : i < j => ids[i] < ids[j]

\* C1, as stated: over any sequence of insert, insert_batch, tombstone,
\* remove_by_path, compact, clear, save and open on one store, every newly
\* assigned id is strictly greater than every id assigned earlier, so that no
\* id value is given to two items.
C1_NeverReused ==
    [][(\A i \in NewIds : i > maxIssued) /\ Increasing(last'.ids)]_vars

\* C1, amended: an insert or insert_batch assigns the ids from next_id on, in
\* increasing order, each greater than every id the store holds, and moves
\* next_id past them; tombstone, remove_by_path, compact and save leave
\* next_id as it is; clear sets it back to 0 (and open to the saved value),
\* after which id values assigned before are assigned again.
C1_IncreasingPerLife ==
    [][/\ \A i \in NewIds :
            /\ db.next_id <= i /\ i < db'.next_id
            /\ \A j \in StoredIds(db) : j < i
       /\ Increasing(last'.ids)
       /\ last'.op \in InsertOps /\ ~last'.panicked
            => db'.next_id = db.next_id + Len(last'.ids)
       /\ last'.op \in {"tombstone", "remove_by_path", "compact", "save"}
            => db'.next_id = db.next_id
       /\ last'.op = "clear" => db'.next_id = 0]_vars

\* an insert after a compaction took the next id, not the compacted one
C1_Witness ==
    /\ last.op = "insert"
    /\ last.ids = <<1>>
    /\ DOMAIN db.metadata = {1}
    /\ db.tombstones = {}

\* C2: no result of search or hybrid_search has an id that is in the
\* tombstone set at the time of the call, for any store reached by inserts,
\* tombstone / remove_by_path calls and compactions, any query and any k.
C2_NoTombstonedResult ==
    last.op \in {"search", "hybrid_search"}
        => \A i \in 1..Len(last.results) : last.results[i].id \notin db.tombstones

\* a search that fetched the whole graph, a tombstoned point included
C2_Witness ==
    /\ last.op = "search"
    /\ Len(last.results) > 0
    /\ db.tombstones \cap db.hnsw # {}
    /\ last.k >= Cardinality(db.hnsw)

\* C3, as stated: after compact() the tombstone set is empty, |metadata| =
\* |vectors| = the |metadata| before minus the |tombstones| before, and every
\* surviving item keeps its id, metadata and vector.
C3_CompactCounts ==
    [][last'.op = "compact" =>
        /\ db'.tombstones = {}
        /\ Cardinality(DOMAIN db'.metadata) = Cardinality(DOMAIN db'.vectors)
        /\ Cardinality(DOMAIN db'.metadata)
             = Cardinality(DOMAIN db.metadata) - Cardinality(db.tombstones)
        /\ \A id \in DOMAIN db'.metadata :
             /\ id \in DOMAIN db.metadata /\ id \in DOMAIN db.vectors
             /\ db'.metadata[id] = db.metadata[id]
             /\ db'.vectors[id] = db.vectors[id]]_vars

\* C4, as stated: in every reachable state the ids in the HNSW graph are
\* exactly the live (non-tombstoned) ids.
C4_GraphIsLive == alive => db.hnsw = LiveIds(db)

\* C4, amended: in every reachable state the graph holds every live id and
\* only ids of stored vectors; a tombstoned id stays in the graph until the
\* store is compacted, so the graph is exactly the live ids right after new,
\* clear, compact and open.
C4_GraphCoversLive ==
    alive =>
        /\ LiveIds(db) \subseteq db.hnsw
        /\ db.hnsw \subseteq DOMAIN db.vectors
        /\ last.op \in {"new", "clear", "compact", "open"}
             => db.hnsw = LiveIds(db)

\* a tombstoned id that is still in the graph, next to a live one
C4_Witness ==
    /\ last.op = "remove_by_path"
    /\ db.hnsw \cap db.tombstones # {}
    /\ LiveIds(db) # {}

\* C5: in every reachable state the metadata map and the vector map have the
\* same key set; right after compact() no id that was tombstoned is a key of
\* either map.
C5_SameKeys ==
    /\ [](alive => DOMAIN db.metadata = DOMAIN db.vectors)
    /\ [][last'.op = "compact" =>
            db.tombstones \cap StoredIds(db') = {}]_vars

\* a compaction that purged an entry and kept another
C5_Witness ==
    /\ last.op = "compact"
    /\ DOMAIN db.metadata # {}
    /\ Cardinality(DOMAIN db.metadata) < db.next_id

\* C6: saving a store in any reachable state and then opening the saved file
\* yields a store with the same len(), id set, tombstone set, next_id and
\* (id, metadata, vector) entries.
C6_SaveOpenRoundTrip ==
    [][last.op = "save" /\ last'.op = "open" =>
        /\ len(db') = len(db)
        /\ DOMAIN db'.metadata = DOMAIN db.metadata
        /\ db'.tombstones = db.tombstones
        /\ db'.next_id = db.next_id
        /\ db'.metadata = db.metadata
        /\ db'.vectors = db.vectors]_vars

\* a store opened from a file that holds live and tombstoned entries
C6_Witness ==
    /\ last.op = "open"
    /\ dir.db = save(db, dir).db
    /\ db.tombstones \cap DOMAIN db.metadata # {}
    /\ LiveIds(db) # {}

\* the file VectorDB::open reads
FileToOpen(d) == IF d.db.exists THEN d.db ELSE d.bin

\* C7, as stated: every well-formed legacy V1 file, whatever its contents and
\* number of entries, opens as a store with the same metadata, vectors and
\* next_id and an empty tombstone set.
C7_LegacyOpens ==
    [][last'.op = "open" =>
        \A st \in LegacyStates :
            FileToOpen(dir) = FileOf(SerializeV1(st)) =>
                /\ db'.metadata = st.metadata
                /\ db'.vectors = st.vectors
                /\ db'.next_id = st.next_id
                /\ db'.tombstones = {}]_vars

\* C8, as stated: from the same store, insert_batch of N items and N
\* sequential inserts of the same items assign the same ids and leave the
\* same len() and next_id.
C8_BatchAsSequence ==
    [][last'.op = "insert_batch" =>
        LET s == InsertEach(db, last'.items)
        IN /\ ~s.panicked
           /\ s.ids = last'.ids
           /\ len(s.db) = len(db')
           /\ s.db.next_id = db'.next_id]_vars

\* C9, as stated: search(query, k) returns at most k results, each an item
\* present and live in the store, and when k is larger than the store size it
\* returns all live items, tombstoned entries not yet compacted or not.
C9_SearchComplete ==
    last.op = "search" =>
        /\ Len(last.results) <= last.k
        /\ \A i \in 1..Len(last.results) :
             /\ last.results[i].id \in LiveIds(db)
             /\ last.results[i].metadata = db.metadata[last.results[i].id]
        /\ last.k > len(db) =>
             {last.results[i].id : i \in 1..Len(last.results)} = LiveIds(db)

\* a request of the server that reads the index
ServerReads ==
    \/ S_Stats
    \/ \E k \in 0..MaxK, ranking \in Rankings(db.hnsw),
          byScore \in Rankings(db.hnsw) : S_Search(k, ranking, byScore)

\* C10: the index updates of one watcher cycle are atomic for the server:
\* under any interleaving, the index a search or stats request reads is the
\* index as a finished cycle left it, with none or all of a cycle's updates.
C10_CycleAtomic == [][ServerReads => db = boundary]_vars

\* a search answered from the index of a finished cycle while the watcher,
\* with the next change set in hand, has yet to take the mutex
C10_Witness ==
    /\ last.op = "serve_search"
    /\ Len(last.results) > 0
    /\ wpc = "lock"
    /\ db.next_id > 0
    /\ boundary = db

\* the live ids of a store whose metadata has one of the paths
LiveOf(d, P) == {id \in LiveIds(d) : d.metadata[id].path \in P}

\* the ids a search request of the server can return from a store
Returnable(d) ==
    UNION {{hybrid_search(d, GoodVec, ranking, ranking, k).results[i].id :
               i \in 1..Len(hybrid_search(d, GoodVec, ranking, ranking, k).results)} :
           ranking \in Rankings(d.hnsw), k \in 0..MaxK}

\* the step that ends a cycle of the watcher
CycleEnds == wpc = "status" /\ wpc' = "sleep"

\* C11: when a tracked file with live ids in the index is deleted, the
\* watcher cycle that sees the deletion leaves none of those ids live, and a
\* cycle that had only deletions to apply lowers len() by exactly their
\* number, whether it compacted or not; an id that is no longer live never
\* becomes live again, and a search returns live ids only.
C11_DeletePropagates ==
    [][/\ CycleEnds =>
            /\ LiveOf(boundary, changes.deleted) \cap LiveIds(db) = {}
            /\ FilesToIndex = {} =>
                 len(db) = len(boundary)
                             - Cardinality(LiveOf(boundary, changes.deleted))
            /\ Returnable(db) \subseteq LiveIds(db)
       /\ \A id \in (0..(db.next_id - 1)) \ LiveIds(db) :
            id \notin LiveIds(db')]_vars

\* a cycle that removed a deleted file's id and did not compact: the id is
\* tombstoned, still stored, next to the live ids of the other file
C11_Witness ==
    /\ wpc = "status"
    /\ changes.deleted # {} /\ FilesToIndex = {}
    /\ LiveOf(boundary, changes.deleted) # {}
    /\ LiveOf(boundary, changes.deleted) \subseteq db.tombstones
    /\ LiveOf(boundary, changes.deleted) \subseteq DOMAIN db.metadata
    /\ len(db) > 0
    /\ len(db) < len(boundary)

\* the metadata a candidate can have, as the features found in it
Candidates == SUBSET Features

\* C12: in every state of the engine reached by learn and
\* learn_with_embeddings, for every query and every candidate, the score
\* adjustment is at least -0.15 and at most 0.15.
C12_AdjustmentBounded ==
    \A query \in Queries, meta \in Candidates :
        /\ score_adjustment(sona, query, meta) <= MAX_ADJUSTMENT
        /\ score_adjustment(sona, query, meta) >= -MAX_ADJUSTMENT

\* learned weights that add up to more than 0.15 for a candidate, and to
\* less than -0.15 for another
C12_Witness ==
    /\ last.op \in {"learn", "learn_with_embeddings"}
    /\ \E query \in Queries, meta \in Candidates :
          /\ RawAdjustment(sona, query, meta) > MAX_ADJUSTMENT
          /\ score_adjustment(sona, query, meta) = MAX_ADJUSTMENT

\* C13, as stated: from an empty engine, as the same refinement_to_plugin
\* signal is learned up to ten times, the score adjustment of its query for a
\* candidate that is a plugin is strictly positive after each signal, never
\* lower than before the signal, and never above 0.15.
C13_Reinforced ==
    [][last'.op = "learn" /\ sig'.kind = "refinement_to_plugin"
         /\ QueryOf(sig') # NoQuery =>
          \A meta \in Candidates :
              "is_plugin" \in meta =>
                  /\ score_adjustment(sona', QueryOf(sig'), meta) > 0
                  /\ score_adjustment(sona', QueryOf(sig'), meta)
                       >= score_adjustment(sona, QueryOf(sig'), meta)
                  /\ score_adjustment(sona', QueryOf(sig'), meta)
                       <= MAX_ADJUSTMENT]_vars

\* C14, as stated: a signal whose kind is not one of the seven recognized
\* kinds is dropped: learn, learn_with_embeddings and the server's feedback
\* command leave the whole engine as it was (learned weights and counts, LoRA
\* matrices and update counter, EWC Fisher values, star weights and update
\* counter).
C14_UnknownKindDropped ==
    [][/\ last'.op \in {"learn", "learn_with_embeddings", "serve_feedback"}
       /\ sig'.kind \notin RecognizedKinds
            => sona' = sona]_vars

\* ---- serve mode: one response line per request line
\* a line that parses as one JSON value: a data response, or an error
\* response whose message holds no bare double quote and no line feed
IsJson(line) ==
    \/ Len(line) = 3 /\ line = DataText(line[2])
    \/ /\ Len(line) >= 5
       /\ line = ErrorText(line[3], SubSeq(line, 4, Len(line) - 2))
       /\ \A i \in 3..(Len(line) - 2) : line[i] \notin {Quote, LineFeed}

\* a line of valid UTF-8 that is not white space is read and handled
RequestHandled ==
    \/ S_InvalidJson
    \/ S_MissingQuery
    \/ \E k \in 0..MaxK, ranking \in Rankings(db.hnsw),
          byScore \in Rankings(db.hnsw) : S_Search(k, ranking, byScore)
    \/ \E checked \in BOOLEAN, ranking \in Rankings(db.hnsw),
          byScore \in Rankings(db.hnsw) :
           S_SearchOverflow(checked, ranking, byScore)
    \/ S_SearchError
    \/ S_Stats
    \/ S_WatcherStatus
    \/ S_NoSignals
    \/ \E signal \in Signals, embedded \in BOOLEAN :
           S_Feedback(signal, embedded, MaxLoopSignals)
    \/ S_SonaStatus
    \/ \E command \in UnknownCommands : S_Unknown(command)

\* C15: every request line (valid, unknown, missing field, malformed,
\* failing search, panicking handler) is answered by exactly one line that
\* is JSON, and the loop goes on to the next line
C15_OneJsonLinePerRequest ==
    [][RequestHandled => (Len(resp') = 1 /\ IsJson(resp'[1]) /\ serving')]_vars

\* C16: the watcher thread never ends while the server runs, whatever the
\* request handlers do under the indexer mutex
C16_WatcherKeepsRunning == serving => wpc # "dead"

\* ---- a persisted file that no longer deserializes
\* the vector-store file that Indexer::new finds does not load
StoreMismatch ==
    \/ dir.db.exists /\ ~load(dir.db.bytes).ok
    \/ ~dir.db.exists /\ dir.bin.exists /\ ~load(dir.bin.bytes).ok

\* the SONA file that Indexer::new finds does not deserialize
SonaMismatch == sonaFile.exists /\ ~sonaFile.empty /\ ~sonaFile.ok

\* C17: when the vector-store file or the SONA file no longer deserializes,
\* opening succeeds, the offending file is deleted, and the system goes on
\* with an empty store, respectively a fresh engine
C17_MismatchRecovered ==
    [][IndexerNew =>
          /\ alive'
          /\ StoreMismatch =>
                 (~dir'.db.exists /\ ~dir'.bin.exists /\ db' = NewDB)
          /\ SonaMismatch => (~sonaFile'.exists /\ sona' = NewSona)]_vars

\* ---- a scan that meets an error
\* the walk could not read the metadata of some file of the tree
ScanWithError ==
    \E unreadable \in SUBSET {p \in Paths : files[p].exists} :
        /\ unreadable # {}
        /\ W_Detect(detect_changes(manifest, files, unreadable))

\* C18: a scan that meets an error skips its cycle: the watcher goes back to
\* sleep with no change set to apply, so that nothing is tombstoned, inserted
\* or removed from the manifest
C18_ScanErrorSkipsCycle ==
    [][ScanWithError => (wpc' = "sleep" /\ changes' = NoChanges)]_vars

\* C19: every vector the store holds has EMBEDDING_DIM elements, because
\* every operation that takes a vector fails on one of another length
C19_DimensionEnforced ==
    \A id \in DOMAIN db.vectors : db.vectors[id].len = EMBEDDING_DIM

\* ---- the exclusion list
\* the file at p lies in a directory that an entry of the list names
UnderBlacklisted(p) ==
    \E e \in 1..Len(EXCLUDE_DIRS) :
        LET c == Components(EXCLUDE_DIRS[e])
        IN \E i \in 1..(Len(p) - Len(c)) : SubSeq(p, i, i + Len(c) - 1) = c

\* C20: no file under a directory of the exclusion list is discovered for
\* indexing, reported by a scan, or tracked in the watcher's manifest
C20_BlacklistExcluded ==
    \A p \in discover_files(files) \cup changes.added \cup changes.modified
                \cup DOMAIN manifest : ~UnderBlacklisted(p)

\* ---- the retry policy of the network fetches
\* a status that the policy retries
Transient(status) == status = 429 \/ is_server_error(status)

\* the fetch followed the policy up to its i-th answer
PolicyAt(f, i) ==
    IF is_success(f.log[i])
    THEN i = Len(f.log) /\ f.outcome \in {"ok", "error"}
    ELSE IF Transient(f.log[i]) /\ i <= MAX_RETRIES
    THEN /\ Len(f.waits) >= i
         /\ f.waits[i] = Shl1(i)
         /\ (i = Len(f.log) => f.outcome \in {"pending", "error"})
    ELSE i = Len(f.log) /\ f.outcome = "error"

\* C21: every fetch, of the model as of a description, retries an answer of
\* 429 or 5xx after 2, 4 and 8 seconds, at most three times, and gives up
\* at once with an error on any other failing status
C21_RetryPolicy ==
    /\ Len(fetch.log) <= MAX_RETRIES + 1
    /\ \A i \in 1..Len(fetch.log) : PolicyAt(fetch, i)

\* ---- the compaction threshold
\* more than one stored vector in five is tombstoned
OverOneFifth(d) == 5 * Cardinality(d.tombstones) > Cardinality(DOMAIN d.vectors)

\* C22: at the end of a cycle the store is compacted if and only if more
\* than 0.20 of its stored vectors are tombstoned; at exactly 0.20 it is left
\* as it is
C22_CompactionThreshold ==
    [][W_Compact => (IF OverOneFifth(db) THEN db' = compact(db) /\ db' # db
                     ELSE db' = db)]_vars

\* a cycle went past its compaction step with exactly one vector in five
\* tombstoned, and the tombstone is still there
C22_Witness ==
    /\ wpc = "save"
    /\ db.tombstones # {}
    /\ 5 * Cardinality(db.tombstones) = Cardinality(DOMAIN db.vectors)
    /\ db = RemovePaths(boundary, changes.deleted)
    /\ changes.deleted # {}

\* ---- the partition of a scan
\* the lists of a change set that hold the path
ListsOf(c, p) ==
    {l \in {"added", "modified", "deleted"} :
        \/ l = "added" /\ p \in c.added
        \/ l = "modified" /\ p \in c.modified
        \/ l = "deleted" /\ p \in c.deleted}

\* the file at p differs from its record in mtime or in size
Differs(p) ==
    files[p].mtime # manifest[p].mtime \/ files[p].size # manifest[p].size

\* the walk of this scan reached the file at p and read its metadata
SeenBy(p) ==
    /\ files[p].exists
    /\ Walked(p)
    /\ files[p].size <= MAX_FILE_SIZE
    /\ p \notin probe.unreadable

\* the lists the scan must have put p in, where `present` tells whether the
\* file at p counts as a file of the tree
Expected(p, present) ==
    IF p \notin DOMAIN manifest
    THEN IF present THEN {"added"} ELSE {}
    ELSE IF ~present THEN {"deleted"}
    ELSE IF Differs(p) THEN {"modified"}
    ELSE {}

\* C23: a file absent from the manifest is reported only as added, a tracked
\* file whose mtime or size differs only as modified, a tracked path without
\* file only as deleted, a tracked file of unchanged mtime and size in no
\* list, and no path in two lists
C23_ScanPartition ==
    probe.op = "detect_changes" =>
        \A p \in Paths :
            ListsOf(probe.out, p) =
                Expected(p, files[p].exists /\ (p \in DOMAIN manifest
                                                \/ files[p].size <= MAX_FILE_SIZE))

\* C23, amended: the same partition, a file counting as present when the
\* walk reached it and read its metadata; a tracked file the walk did not
\* see (gone, grown above MAX_FILE_SIZE, metadata not readable) is reported
\* only as deleted, whatever its mtime and size
C23_ScanPartitionOfSeen ==
    probe.op = "detect_changes" =>
        \A p \in Paths : ListsOf(probe.out, p) = Expected(p, SeenBy(p))

\* a scan that reported one path as modified, for its size alone, and the
\* other, tracked and unchanged, in no list
C23_Witness ==
    /\ probe.op = "detect_changes"
    /\ \E p \in Paths, q \in Paths :
          /\ p # q
          /\ p \in probe.out.modified
          /\ files[p].mtime = manifest[p].mtime
          /\ q \in DOMAIN manifest
          /\ SeenBy(q)
          /\ ListsOf(probe.out, q) = {}

\* ---- the bonus for many terms
\* the query terms of 3 characters or more that some field of the candidate
\* contains
MatchedTerms(meta, query_terms) ==
    {t \in LongTerms :
        /\ \E i \in 1..Len(query_terms) : query_terms[i] = t
        /\ \/ Contained(meta.path, t)
           \/ Contained(meta.search_text, t)
           \/ Contained(meta.class_name, t)
           \/ Contained(meta.magento_type, t)}

\* C24: the bonus for many terms is given to a candidate exactly when at
\* least 3 query terms of 3 characters or more matched it somewhere
C24_ManyTermsBonus ==
    probe.op = "keyword_bonus" =>
        (probe.out.many <=>
            Cardinality(MatchedTerms(probe.meta, probe.query_terms)) >= 3)

\* ---- the role flags set by the path
\* the relative path, lowercased and joined with "/", holds "/<dir>/"
PathNames(path, name) ==
    \E i \in 1..Len(path) :
        /\ to_lowercase(path[i]) = name
        /\ i > 1
        /\ i < Len(path)

\* C25: each of the flags is_controller, is_plugin, is_observer and is_block
\* of the metadata is the analyzer's flag or-ed with the path rule, so a path
\* holding /controller/, /plugin/, /observer/ or /block/ in any case sets the
\* flag whatever the content is and whether or not the file was analyzed
C25_PathRoleFallback ==
    probe.op = "build_metadata" =>
        /\ probe.out.is_controller =
               (probe.php_ast.is_controller \/ PathNames(probe.path, "controller"))
        /\ probe.out.is_plugin =
               (probe.php_ast.is_plugin \/ PathNames(probe.path, "plugin"))
        /\ probe.out.is_observer =
               (probe.php_ast.is_observer \/ PathNames(probe.path, "observer"))
        /\ probe.out.is_block =
               (probe.php_ast.is_block \/ PathNames(probe.path, "block"))

\* a file under /Controller/ that the analyzer took for no controller, and
\* one that was not analyzed, both flagged as controllers
C25_Witness ==
    /\ probe.op = "build_metadata"
    /\ PathNames(probe.path, "controller")
    /\ probe.path[5] = "Controller"
    /\ ~probe.php_ast.is_controller
    /\ probe.php_ast.analyzed
    /\ probe.out.is_controller

\* ---- the count of live vectors
\* C26: after any sequence of insert, insert_batch, tombstone with any id,
\* remove_by_path, compact and clear, len() is the number of ids that are in
\* the metadata map and not in the tombstone set
C26_LenIsLiveCount == len(db) = Cardinality(LiveIds(db))

\* ---- one live entry for a path
\* the live ids of the store whose metadata names the path
LiveIdsOf(d, p) == {id \in LiveIds(d) : d.metadata[id].path = p}

\* C27: whatever cycles the watcher ran, failed ones and restarts of the
\* process included, no path has more than one live id in the store
C27_OneLiveIdPerPath == \A p \in Paths : Cardinality(LiveIdsOf(db, p)) <= 1

\* ---- the cycle settles what it handled
\* C28: when a cycle has applied its change set, every added or modified
\* path it handled (an empty file, a file that could not be read and a file
\* whose embedding failed included) is recorded with the file's mtime and
\* size, so the next scan of an unchanged tree does not report it again
C28_HandledPathsSettle ==
    [][W_Apply =>
          LET again == detect_changes(manifest', files, {})
          IN FilesToIndex \cap (again.added \cup again.modified) = {}]_vars

\* ---- the manifest describes what was indexed
\* C29: between cycles, the mtime and size recorded for a path that has a
\* live entry are those of the file as it was read to build that entry, so
\* a modification made while the cycle handled the file is seen by a later
\* scan and not lost
C29_ManifestDescribesIndexed ==
    wpc = "sleep" =>
        \A p \in DOMAIN manifest :
            LiveIdsOf(db, p) # {} =>
                p \in DOMAIN built /\ manifest[p] = built[p]

\* ---- the two mutexes
\* a thread waits for the indexer mutex while it holds the status mutex
WaitsForIndexerHoldingStatus ==
    \/ /\ spc.todo # <<>>
       /\ Head(spc.todo) = "indexer"
       /\ slock = "server"
    \/ /\ wpc \in {"start", "lock"}
       /\ slock = "watcher"

\* the places where the watcher thread waits for a mutex
WaitPcs == {"start", "start_status", "lock", "status_lock"}

============================================================================
